---- MODULE Spec2Model ----
(***************************************************************************)
(* FieldStation42: the playback orchestrator (web_field_player.main_loop,  *)
(* WebStationPlayer / StationPlayer.play_slot and schedule_panic) together *)
(* with the schedule resolver and generator it drives                      *)
(* (LiquidManager.get_play_point / reload_schedules,                       *)
(* LiquidSchedule.add_days).                                               *)
(*                                                                         *)
(* Time is counted in whole seconds from the start of calendar day 0.      *)
(* A PlayPoint index is 0-based, as in the program; TLA+ sequences are     *)
(* 1-based, so plan entry `index` is plan[index + 1].                      *)
(***************************************************************************)
EXTENDS Integers, Sequences, FiniteSets, TLC

\* ------------------------------------------------------------------ bounds

\* The clock is observed up to this second.
MaxNow == 8

\* At most this many calendar days are generated per network.
MaxDays == 3

\* Break detection is run at most this many times on a file while its cache
\* record stays.
MaxDetections == 2

\* At most this many file-cache scans are run in a row.
MaxScans == 2

\* The catalog builder is observed up to this second.
MaxWait == 1

\* ----------------------------------------------------------- configuration

\* Station configuration (StationManager().stations): the channels in order.
\* Each station programs its day as a sequence of slots, every slot naming
\* the content tag it draws from and its target length in seconds.  The
\* first station names a standby image; the last one is the guide channel,
\* which has no schedule.
stations ==
    << [network_name |-> "n1", channel_number |-> 3, network_type |-> "standard",
        standby_image |-> "standby.png",
        slots |-> << [title |-> "show", tag |-> "t1", length |-> 2],
                     [title |-> "news", tag |-> "t3", length |-> 1] >>],
       [network_name |-> "n2", channel_number |-> 5, network_type |-> "standard",
        slots |-> << [title |-> "late", tag |-> "t2", length |-> 2] >>],
       [network_name |-> "guide", channel_number |-> 7, network_type |-> "guide",
        slots |-> <<>>] >>

\* The networks that have a schedule.
Networks ==
    {stations[i].network_name :
        i \in {j \in 1..Len(stations) : stations[j].network_type # "guide"}}

\* StationManager().station_by_name(network_name)
station_by_name(network_name) ==
    stations[CHOOSE i \in 1..Len(stations) : stations[i].network_name = network_name]

\* Media assets known to the catalog, with the duration the catalog supplies.
ClipDuration == [a |-> 1, b |-> 2]

Clips == DOMAIN ClipDuration

Tags == {"t1", "t2", "t3"}

\* ---------------------------------------------------------------- data model

RECURSIVE SumDurations(_)
\* Sum of the entry durations of a plan.
SumDurations(plan) ==
    IF plan = <<>> THEN 0
    ELSE plan[1].duration + SumDurations(Tail(plan))

\* Sum of the durations of plan[1..k]: the prefix sum before 0-based entry k.
PrefixSum(plan, k) == SumDurations(SubSeq(plan, 1, k))

\* Length of one calendar day of a station: its slots laid end to end.
RECURSIVE SlotsLength(_)
SlotsLength(slots) ==
    IF slots = <<>> THEN 0
    ELSE slots[1].length + SlotsLength(Tail(slots))

DayLength(network_name) == SlotsLength(station_by_name(network_name).slots)

\* Schedule horizon of a schedule (a sequence of blocks): [first start, last end).
HorizonStart(schedule) == schedule[1].start_time

HorizonEnd(schedule) == schedule[Len(schedule)].end_time

\* --------------------------------------------------------- Schedule Resolver

\* Results of get_play_point.  A PlayPoint carries index, offset and plan;
\* the two failures are the exceptions ScheduleNotFound and
\* ScheduleQueryNotInBounds; NoPlayPoint is the None the caller tests for.
ScheduleNotFound == [kind |-> "ScheduleNotFound", index |-> 0, offset |-> 0, plan |-> <<>>]

ScheduleQueryNotInBounds ==
    [kind |-> "ScheduleQueryNotInBounds", index |-> 0, offset |-> 0, plan |-> <<>>]

NoPlayPoint == [kind |-> "None", index |-> 0, offset |-> 0, plan |-> <<>>]

PlayPoint(index, offset, plan) ==
    [kind |-> "PlayPoint", index |-> index, offset |-> offset, plan |-> plan]

\* Block.contains_time: the half-open interval [start_time, end_time).
ContainsTime(block, timestamp) ==
    block.start_time <= timestamp /\ timestamp < block.end_time

\* The offset reported for the active entry: the seconds elapsed since the
\* entry began, adjusted by the entry's own skip.
EntryOffset(entry, elapsed, prefix) == (elapsed - prefix) + entry.skip

\* The walk stops at the first entry whose running total exceeds `elapsed`.
WalkStops_AtOrBeyond(running, elapsed) == running >= elapsed

WalkStops(running, elapsed) == running > elapsed

RECURSIVE WalkPlan(_, _, _, _)
\* Walk the plan from 1-based position i with `prefix` seconds accumulated.
WalkPlan(plan, elapsed, i, prefix) ==
    IF i > Len(plan) THEN NoPlayPoint
    ELSE IF WalkStops(prefix + plan[i].duration, elapsed)
         THEN PlayPoint(i - 1, EntryOffset(plan[i], elapsed, prefix), plan)
         ELSE WalkPlan(plan, elapsed, i + 1, prefix + plan[i].duration)

\* Classification of a query no block covers.
Uncovered_AlwaysNotFound(schedule, timestamp) == ScheduleNotFound

Uncovered(schedule, timestamp) ==
    IF timestamp < HorizonStart(schedule) THEN ScheduleNotFound
    ELSE ScheduleQueryNotInBounds

\* LiquidManager.get_play_point(network, timestamp) over the in-memory
\* schedules `scheds`.
get_play_point(scheds, network_name, timestamp) ==
    LET schedule == IF network_name \in DOMAIN scheds THEN scheds[network_name] ELSE <<>>
        covering == {i \in 1..Len(schedule) : ContainsTime(schedule[i], timestamp)}
    IN  IF schedule = <<>> THEN ScheduleNotFound
        ELSE IF covering = {} THEN Uncovered(schedule, timestamp)
        ELSE LET block == schedule[CHOOSE i \in covering : \A j \in covering : i <= j]
             IN  WalkPlan(block.plan, timestamp - block.start_time, 1, 0)

\* -------------------------------------------------------- Schedule Generator

\* The PlanEntry values generation can make from the clips of a tag:
\* duration from the catalog, skip anywhere the PlanEntry invariant allows.
PlanEntries(clips) ==
    UNION {{[path |-> c, duration |-> ClipDuration[c], skip |-> s, is_stream |-> FALSE] :
                s \in 0..(ClipDuration[c] - 1)} : c \in clips}

RECURSIVE PlansReaching(_, _)
\* Every plan made by pulling content until the accumulated durations reach
\* `target`.  Empty when the tag has no eligible content.
PlansReaching(clips, target) ==
    IF target <= 0 THEN {<<>>}
    ELSE UNION {{<<e>> \o rest : rest \in PlansReaching(clips, target - e.duration)} :
                    e \in PlanEntries(clips)}

\* Where a newly generated day begins: at the prior horizon end, and for a
\* network with no schedule at the start of the current calendar day.
DayStart_Gap(schedule, network_name, today) ==
    IF schedule = <<>> THEN (today \div DayLength(network_name)) * DayLength(network_name)
    ELSE HorizonEnd(schedule) + 1

DayStart_Again(schedule, network_name, today) ==
    IF schedule = <<>> THEN (today \div DayLength(network_name)) * DayLength(network_name)
    ELSE schedule[Len(schedule)].start_time

DayStart(schedule, network_name, today) ==
    IF schedule = <<>> THEN (today \div DayLength(network_name)) * DayLength(network_name)
    ELSE HorizonEnd(schedule)

RECURSIVE DayBlocks(_, _, _)
\* Every sequence of blocks for the slots `slots` laid out from `start`.
DayBlocks(catalog, slots, start) ==
    IF slots = <<>> THEN {<<>>}
    ELSE LET slot == slots[1]
         IN  UNION {{<<[start_time |-> start, end_time |-> start + slot.length,
                        title |-> slot.title, plan |-> p]>> \o rest :
                        rest \in DayBlocks(catalog, Tail(slots), start + slot.length)} :
                     p \in PlansReaching(catalog[slot.tag], slot.length)}

\* How a generated day is committed to the persisted schedule.
Commit_RewriteLast(schedule, day) ==
    IF schedule = <<>> THEN day
    ELSE SubSeq(schedule, 1, Len(schedule) - 1) \o day

Commit(schedule, day) == schedule \o day

\* generate_day(network, catalog): every schedule one more day can yield.
\* The empty set is a GenerationFault: nothing is appended.
generate_day(schedule, network_name, catalog, today) ==
    {Commit(schedule, day) :
        day \in DayBlocks(catalog, station_by_name(network_name).slots,
                          DayStart(schedule, network_name, today))}

\* LiquidSchedule.add_days(n), were a failing day to leave the blocks of the
\* slots before the failing one in the persisted schedule.
add_days_Partial(schedule, network_name, catalog, today, n) ==
    LET days == generate_day(schedule, network_name, catalog, today)
        slots == station_by_name(network_name).slots
    IN  IF days = {}
        THEN {[schedule |-> Commit(schedule, part), fault |-> TRUE] :
                part \in DayBlocks(catalog, SubSeq(slots, 1, 1),
                                   DayStart(schedule, network_name, today))}
        ELSE {[schedule |-> s, fault |-> FALSE] : s \in days}

RECURSIVE add_days(_, _, _, _, _)
\* LiquidSchedule.add_days(n): generate_day n times, persisting after each
\* day.  Each result is the persisted schedule the run leaves and whether it
\* ended in a GenerationFault.
add_days(schedule, network_name, catalog, today, n) ==
    IF n = 0 THEN {[schedule |-> schedule, fault |-> FALSE]}
    ELSE LET days == generate_day(schedule, network_name, catalog, today)
         IN  IF days = {} THEN {[schedule |-> schedule, fault |-> TRUE]}
             ELSE UNION {add_days(s, network_name, catalog, today, n - 1) : s \in days}

\* LiquidManager.reload_schedules(): the in-memory schedules become the
\* persisted ones.
reload_schedules(in_memory, stored) == stored

\* ------------------------------------------------- catalog store, inspector

\* The media files of the content directory, in the order a listing of the
\* directory yields them.
Files == <<"f1", "f2">>

FileSet == {Files[i] : i \in 1..Len(Files)}

\* The fingerprints (size and modification time) a file can have on disk;
\* 0 stands for a file that is not there.
Fingerprints == {1, 2}

\* A path with no file on disk.
NoFile == [fingerprint |-> 0, readable |-> FALSE]

\* What a path can hold on disk: nothing, or a version of the file; the
\* first file of the listing is the one that can be corrupt.
DiskStates(f) ==
    {NoFile} \cup
    [fingerprint : Fingerprints, readable : IF f = Files[1] THEN BOOLEAN ELSE {TRUE}]

\* The file cache holds no record for a path (check_file_cache returns None).
NoRecord == [fingerprint |-> 0, duration |-> 0, last_verified |-> 0]

\* The media files found under the directory: the paths with a file.
rfind_media(d) == SelectSeq(Files, LAMBDA f : d[f].fingerprint # 0)

\* probe_duration(path): the duration of the bytes on disk, which differs
\* from one version of a file to the next.
probe_duration(f, d) == d[f].fingerprint

\* detect_breaks(path, known_duration): a function of the bytes and of the
\* duration.  The last file has no break; any other has one, placed by its
\* bytes and the duration given.
detect_breaks(f, fingerprint, known_duration) ==
    IF f = Files[Len(Files)] THEN <<>> ELSE <<fingerprint + known_duration>>

\* FluidStatements.check_file_cache(connection, path): the record, or None.
check_file_cache(cache, path) == cache[path]

\* FluidStatements.get_break_points(connection, path): the rows stored for
\* the path, none when nothing was stored.
get_break_points(points, path) == points[path]

\* FluidStatements.add_break_points(connection, path, breaks): one row per
\* break point.
add_break_points(points, path, breaks) == [points EXCEPT ![path] = breaks]

\* Whether a scan has to probe a file: its record is absent or carries
\* another fingerprint.
NeedsProbe_Always(record, fingerprint) == TRUE

NeedsProbe(record, fingerprint) == record.fingerprint # fingerprint

\* put/refresh(path, fingerprint, duration) at time t: the record is created
\* or replaced, and the break points cached for the path go with the record
\* they were computed under.
put_refresh(store, f, fingerprint, duration, t) ==
    [file_cache |-> [store.file_cache EXCEPT ![f] =
                        [fingerprint |-> fingerprint, duration |-> duration,
                         last_verified |-> t]],
     break_points |-> [store.break_points EXCEPT ![f] = <<>>]]

RECURSIVE Scanned_UntilProbeError(_, _, _)
\* The files a scan gets to: all of them, a probe failure being logged and
\* the scan going on with the next file.
Scanned_UntilProbeError(file_list, store, d) ==
    IF file_list = <<>> THEN <<>>
    ELSE LET f == file_list[1]
         IN  IF NeedsProbe(store.file_cache[f], d[f].fingerprint) /\ ~d[f].readable
             THEN <<>>
             ELSE <<f>> \o Scanned_UntilProbeError(Tail(file_list), store, d)

Scanned(file_list, store, d) == file_list

RECURSIVE iterate_entries(_, _, _, _)
\* One pass over the files a scan gets to: a file whose record is absent or
\* changed is probed and upserted; a file that fails probing is left out.
iterate_entries(store, file_list, d, t) ==
    IF file_list = <<>> THEN store
    ELSE LET f == file_list[1]
             next == IF ~NeedsProbe(store.file_cache[f], d[f].fingerprint) THEN store
                     ELSE IF ~d[f].readable THEN store
                     ELSE put_refresh(store, f, d[f].fingerprint, probe_duration(f, d), t)
         IN  iterate_entries(next, Tail(file_list), d, t)

\* FluidStatements.iterate_file_entries(connection, file_list).
iterate_file_entries(store, file_list, d, t) ==
    iterate_entries(store, Scanned(file_list, store, d), d, t)

\* Whether a record verified at t is older than the cutoff of a trim.
Precedes_OrAt(t, cutoff) == t <= cutoff

Precedes(t, cutoff) == t < cutoff

\* FluidStatements.trim_file_entries(connection, from_time).
trim_file_entries(cache, from_time) ==
    [f \in FileSet |->
        IF cache[f] # NoRecord /\ Precedes(cache[f].last_verified, from_time)
        THEN NoRecord ELSE cache[f]]

\* ------------------------------------------------------------------- state

VARIABLES
    persisted,      \* the persisted schedule of every network: a sequence of blocks
    schedules,      \* LiquidManager's in-memory schedules, as last (re)loaded
    clip_index,     \* the catalog: the clips eligible under each content tag
    now,            \* the wall clock, in seconds
    channel_socket, \* contents of the channel command file ("" when empty)
    web_index,      \* web_player.current_channel_index, written by the web handlers
    pc,             \* where main_loop / play_slot stands
    channel_index,  \* main_loop's channel_index
    channel_conf,   \* main_loop's channel_conf
    outcome,        \* main_loop's outcome
    skip_play,      \* main_loop's skip_play
    stuck_timer,    \* main_loop's stuck_timer
    network,        \* play_slot's network_name (kept as the network last played)
    when,           \* play_slot's when
    raised,         \* the exception get_play_point raised in this play_slot ("none")
    panic_i,        \* the statement of schedule_panic to run next
    play_point,     \* play_slot's play_point
    entry_i,        \* _play_from_point: 1-based position of the entry in play
    initial_skip,   \* _play_from_point's initial_skip
    stop_time,      \* end of the current monitoring or sleep
    current_playing_file_path,
    log,            \* history: the scheduler calls made by the last play_slot
    horizon_at_query, \* history: in-memory horizon end of `network` at the query
    oob_adds,       \* history: add_days calls made for ScheduleQueryNotInBounds
                    \*          since `network` last resolved a query
    days_generated, \* history: days committed per network
    first_start,    \* history: start of the first day generated per network
    faults,         \* history: networks for which a generate_day has failed
    disk,           \* the content directory: fingerprint and readability per file
    file_cache,     \* the file cache table: one record per path, or none
    break_points,   \* the break point table: the points stored per path
    detections,     \* history: detections run per file since its record was made
    detect_log,     \* history: the detection calls of the last scan_breaks
    lost_points,    \* history: files whose points the last scan_breaks wrote and lost
    prev,           \* history: the last catalog operation and the records it changed
    w_pc,           \* two players on one store: where each stands
    w_loaded,       \* two players: the schedule each one's add_days loaded
    w_schedules,    \* two players: each one's in-memory schedule
    w_bases,        \* history: the horizon ends days were appended onto
    w_divergent,    \* history: a day was appended onto a horizon already extended
    played,         \* history: the play_file calls of the last _play_from_point
    unprocessed,    \* history: the command taken from the channel file and not
                    \*          yet acted on by main_loop ("" when none)
    standby_shows,  \* history: play_file(standby_image) calls of this stuck episode
    m_pc,           \* a check of the channel file, step by step: where it stands
    m_contents,     \* that check's contents
    m_fresh,        \* history: the command written while the file was empty
                    \*          and still in the file or in a check's hands
    m_lost,         \* history: such a command was erased without being returned
    m_returns,      \* history: times the last such command was returned
    m_raced,        \* history: it was written between a read and that call's end
    c_blocks,       \* the schedule file a conversion reads: its blocks
    c_json,         \* the JSON file a conversion wrote, if it has
    api_request,    \* history: the channel number of the last POST /api/channel/{n}
    api_response,   \* history: the status code of its response (0 before any)
    current_stream_process, \* WebFieldPlayer.current_stream_process (0 is None)
    stream_process, \* the ffmpeg process started for each /live request
    live_responses, \* the streaming response of each /live request
    read_from,      \* history: the processes each response has read output of
    killed_by,      \* history: who killed each process (-1 nobody, 0 live_stream,
                    \*          r the cleanup of response r)
    g_pc,           \* StationPlayer.show_guide: where it stands
    guide_process,  \* show_guide's guide_process
    guide_queue,    \* show_guide's queue to the guide process
    g_outcome,      \* show_guide's response, and what it returned
    g_playing,      \* StationPlayer.current_playing_file_path
    status_socket,  \* contents of the status file, as a sequence of tokens
    s_pc,           \* update_status_socket: where it stands
    s_str,          \* update_status_socket's as_str
    osd_string,     \* StatusDisplay._text.string (<<>> is the empty string)
    time_since_change, \* StatusDisplay.time_since_change
    osd_read,       \* history: the text the last check_status read
    k_catalog,      \* the catalog file a conversion loaded
    k_output,       \* the output file of a catalog conversion
    k_return,       \* what convert_catalog_to_json returned ("none" before)
    fb_arg,         \* the db_path argument FluidBuilder was constructed with
    fb_db_path,     \* FluidBuilder.db_path ("unset" while the attribute is missing)
    fb_raised,      \* the exception FluidBuilder.__init__ raised ("none")
    fb_initialised  \* the database files init_db has been run on

sched_vars == <<persisted, schedules, clip_index>>

env_vars == <<now, channel_socket, web_index>>

loop_vars == <<pc, channel_index, channel_conf, outcome, skip_play, stuck_timer>>

slot_vars == <<network, when, raised, panic_i, play_point>>

play_vars == <<entry_i, initial_skip, stop_time, current_playing_file_path>>

hist_vars == <<log, horizon_at_query, oob_adds, days_generated, first_start, faults>>

cache_vars == <<disk, file_cache, break_points, detections, detect_log, lost_points, prev>>

writer_vars == <<w_pc, w_loaded, w_schedules, w_bases, w_divergent>>

watch_vars == <<played, unprocessed, standby_shows>>

mail_vars == <<m_pc, m_contents, m_fresh, m_lost, m_returns, m_raced>>

conv_vars == <<c_blocks, c_json>>

api_vars == <<api_request, api_response>>

live_vars == <<current_stream_process, stream_process, live_responses, read_from, killed_by>>

guide_vars == <<g_pc, guide_process, guide_queue, g_outcome, g_playing>>

osd_vars == <<status_socket, s_pc, s_str, osd_string, time_since_change, osd_read>>

catalog_vars == <<k_catalog, k_output, k_return>>

ctor_vars == <<fb_arg, fb_db_path, fb_raised, fb_initialised>>

svc_vars == <<api_vars, live_vars, guide_vars, osd_vars, catalog_vars, ctor_vars>>

vars == <<sched_vars, env_vars, loop_vars, slot_vars, play_vars, hist_vars,
          cache_vars, writer_vars, watch_vars, mail_vars, conv_vars, svc_vars>>

\* PlayerOutcome(status, payload)
PlayerOutcome(status, payload) == [status |-> status, payload |-> payload]

\* The value of a variable that holds None.
None == "None"

\* Number of calendar days a schedule of `network_name` holds.
DaysOf(schedule, network_name) ==
    Len(schedule) \div Len(station_by_name(network_name).slots)

\* The two players run against one store: the field player and the web
\* player.
Players == {"field", "web"}

\* The network both of them are tuned to.
SharedNetwork == stations[1].network_name

\* No JSON file has been written.
NoJson == [written |-> FALSE, blocks |-> <<>>]

\* Number of /live requests followed.
MaxStreams == 2

\* The /live requests, in the order they arrive; each names the process
\* started for it and its response.
Streams == 1..MaxStreams

\* StationManager().server_conf["db_path"]
ConfDbPath == "conf.db"

\* No catalog file loaded yet.
NoCatalog == [loaded |-> FALSE, clip_index |-> <<>>]

\* Seconds of StatusDisplay.time_since_change that are told apart.
MaxSince == 2

\* An output path that holds no file.
NoOutput == [exists |-> FALSE, chunks |-> <<>>, closed |-> FALSE]

\* A command check_channel_socket removed from the channel file and the
\* place it was read at; NoCommand when every removed command has been
\* processed.
Removed(payload, from) == [payload |-> payload, from |-> from]

NoCommand == Removed("", "")

\* One play_file call of _play_from_point: the 0-based plan index, the entry,
\* the position sought to and the seconds monitored.
Played(index, entry, seek, monitor) ==
    [index |-> index, entry |-> entry, seek |-> seek, monitor |-> monitor]

\* No catalog operation has run yet.
NoOperation == [op |-> "none", arg |-> 0, touched |-> {}]

\* A store in which no schedule has been generated yet.
NoSchedules == [n \in Networks |-> <<>>]

\* The stores a start can find over the catalog `catalog`: nothing generated
\* yet, or the first day of the first station left by an earlier run.
StoresAtStart(catalog) ==
    {NoSchedules} \cup
    {[NoSchedules EXCEPT ![stations[1].network_name] = s] :
        s \in generate_day(<<>>, stations[1].network_name, catalog, 0)}

\* The state main_loop starts from, over the catalog `catalog` and the store
\* `stored`: LiquidManager holds what the store holds, the channel file is
\* cleared, the first station is selected.
InitState(catalog, stored) ==
    /\ persisted = stored
    /\ schedules = stored
    /\ clip_index = catalog
    /\ now = 0
    /\ channel_socket = ""
    /\ web_index = 0
    /\ pc = "loop"
    /\ channel_index = 0
    /\ channel_conf = stations[1]
    /\ outcome = PlayerOutcome(None, "")
    /\ skip_play = FALSE
    /\ stuck_timer = 0
    /\ network = None
    /\ when = 0
    /\ raised = "none"
    /\ panic_i = 0
    /\ play_point = NoPlayPoint
    /\ entry_i = 0
    /\ initial_skip = 0
    /\ stop_time = 0
    /\ current_playing_file_path = None
    /\ log = <<>>
    /\ horizon_at_query = 0
    /\ oob_adds = 0
    /\ days_generated = [n \in Networks |-> DaysOf(stored[n], n)]
    /\ first_start = [n \in Networks |-> 0]
    /\ faults = {}
    /\ disk = [f \in FileSet |-> NoFile]
    /\ file_cache = [f \in FileSet |-> NoRecord]
    /\ break_points = [f \in FileSet |-> <<>>]
    /\ detections = [f \in FileSet |-> 0]
    /\ detect_log = {}
    /\ lost_points = {}
    /\ prev = NoOperation
    /\ w_pc = [p \in Players |-> "loop"]
    /\ w_loaded = [p \in Players |-> <<>>]
    /\ w_schedules = [p \in Players |-> stored[SharedNetwork]]
    /\ w_bases = {}
    /\ w_divergent = FALSE
    /\ played = <<>>
    /\ unprocessed = NoCommand
    /\ standby_shows = 0
    /\ m_pc = "idle"
    /\ m_contents = ""
    /\ m_fresh = ""
    /\ m_raced = FALSE
    /\ m_lost = FALSE
    /\ m_returns = 0
    /\ c_blocks = <<>>
    /\ c_json = NoJson
    /\ api_request = 0
    /\ api_response = 0
    /\ current_stream_process = 0
    /\ stream_process = [p \in Streams |-> "none"]
    /\ live_responses = [r \in Streams |-> "none"]
    /\ read_from = [r \in Streams |-> {}]
    /\ killed_by = [p \in Streams |-> -1]
    /\ g_pc = "idle"
    /\ guide_process = "none"
    /\ guide_queue = <<>>
    /\ g_outcome = PlayerOutcome(None, "")
    /\ g_playing = None
    /\ status_socket = <<>>
    /\ s_pc = "idle"
    /\ s_str = <<>>
    /\ osd_string = <<>>
    /\ time_since_change = 0
    /\ osd_read = <<>>
    /\ k_catalog = NoCatalog
    /\ k_output = NoOutput
    /\ k_return = "none"

\* The catalog builder as FluidBuilder() leaves it: db_path is the configured
\* path and the database there is initialised.
BuilderConstructed ==
    /\ fb_arg = None
    /\ fb_db_path = ConfDbPath
    /\ fb_raised = "none"
    /\ fb_initialised = {ConfDbPath}

\* No FluidBuilder made yet.
BuilderUnconstructed ==
    /\ fb_arg = None
    /\ fb_db_path = "unset"
    /\ fb_raised = "none"
    /\ fb_initialised = {}

InitWith(catalog, stored) == InitState(catalog, stored) /\ BuilderConstructed

\* ------------------------------------------------------------ environment

\* Where main_loop waits: between iterations, in a monitoring loop, in the
\* guide loop and in time.sleep(1).  Its other steps take no time, so what
\* reaches the player from outside reaches it at one of these.
Waiting == {"loop", "monitor", "sleep", "guide"}

\* A second passes while the player waits: between loop iterations, in a
\* monitoring loop, in the guide loop, in time.sleep(1).
Tick ==
    /\ pc \in Waiting
    /\ now < MaxNow
    /\ now' = now + 1
    /\ UNCHANGED <<sched_vars, channel_socket, web_index, loop_vars, slot_vars,
                   play_vars, hist_vars>>
    /\ UNCHANGED <<cache_vars, writer_vars, mail_vars, conv_vars, svc_vars>>
    /\ UNCHANGED watch_vars

\* What a remote control writes to the channel command file: each name
\* stands for the JSON document carrying that command.
Commands == {"up", "down"}

\* Every document a writer can leave in the channel file: the two relative
\* commands, a direct tune to a configured channel, to a channel no station
\* has and without a channel, and text that is not JSON.
Payloads == Commands \cup {"direct 5", "direct 4", "direct", "junk"}

\* json.loads of the file contents; a missing "channel" key is -1 and a
\* missing "command" key is "".
JsonLoads(contents) ==
    CASE contents = "up" -> [ok |-> TRUE, command |-> "up", channel |-> -1]
      [] contents = "down" -> [ok |-> TRUE, command |-> "down", channel |-> -1]
      [] contents = "direct 5" -> [ok |-> TRUE, command |-> "direct", channel |-> 5]
      [] contents = "direct 4" -> [ok |-> TRUE, command |-> "direct", channel |-> 4]
      [] contents = "direct" -> [ok |-> TRUE, command |-> "direct", channel |-> -1]
      [] contents = "sideways" -> [ok |-> TRUE, command |-> "sideways", channel |-> -1]
      [] contents = "no command" -> [ok |-> TRUE, command |-> "", channel |-> -1]
      [] OTHER -> [ok |-> FALSE, command |-> "", channel |-> -1]

\* Another process writes a command to the channel file of a running player.
WriteChannelCommand ==
    /\ pc # "crashed"
    /\ \E c \in Commands : channel_socket' = c
    /\ UNCHANGED <<sched_vars, now, web_index, loop_vars, slot_vars, play_vars, hist_vars>>
    /\ UNCHANGED <<cache_vars, writer_vars, mail_vars, conv_vars, svc_vars>>
    /\ UNCHANGED watch_vars

\* Another process writes any document to the channel file of a running
\* player.
WriteChannelPayload ==
    /\ pc \in Waiting
    /\ \E c \in Payloads : channel_socket' = c
    /\ UNCHANGED <<sched_vars, now, web_index, loop_vars, slot_vars, play_vars, hist_vars>>
    /\ UNCHANGED <<cache_vars, writer_vars, mail_vars, conv_vars, svc_vars>>
    /\ UNCHANGED watch_vars

\* The documents the channel change branch tells apart: Payloads, a command
\* that is none of up, down and direct, and a document without a command.
TunePayloads == Payloads \cup {"sideways", "no command"}

\* Another process writes any of these documents to the channel file of a
\* running player.
WriteTunePayload ==
    /\ pc \in Waiting
    /\ \E c \in TunePayloads : channel_socket' = c
    /\ UNCHANGED <<sched_vars, now, web_index, loop_vars, slot_vars, play_vars, hist_vars>>
    /\ UNCHANGED <<cache_vars, writer_vars, mail_vars, conv_vars, svc_vars>>
    /\ UNCHANGED watch_vars

\* StationManager().index_from_channel(channel): None is -1.
index_from_channel(channel) ==
    IF \E i \in 1..Len(stations) : stations[i].channel_number = channel
    THEN (CHOOSE i \in 1..Len(stations) : stations[i].channel_number = channel) - 1
    ELSE -1

\* The channel numbers a browser asks for: every configured channel and one
\* no station has.
RequestedChannels == {stations[i].channel_number : i \in 1..Len(stations)} \cup {4}

\* POST /api/channel/{channel_number}: the index of a known channel becomes
\* current_channel_index; an unknown channel is answered with an error.
change_channel ==
    /\ pc \in Waiting
    /\ \E channel_number \in RequestedChannels :
          LET new_index == index_from_channel(channel_number)
          IN  web_index' = IF new_index # -1 THEN new_index ELSE web_index
    /\ UNCHANGED <<sched_vars, now, channel_socket, loop_vars, slot_vars, play_vars,
                   hist_vars>>
    /\ UNCHANGED <<cache_vars, writer_vars, mail_vars, conv_vars, svc_vars>>
    /\ UNCHANGED watch_vars

\* change_channel, the status code of what its try block returns (200) or
\* raises: HTTPException(status_code=404) for a channel no station has.
change_channel_try(channel_number) ==
    IF index_from_channel(channel_number) # -1 THEN 200 ELSE 404

\* change_channel's `except Exception`: HTTPException is an Exception, so
\* whatever the try block raises is answered as HTTPException(status_code=500).
change_channel_status(channel_number) ==
    IF change_channel_try(channel_number) = 200 THEN 200 ELSE 500

\* POST /api/channel/{channel_number} as its client sees it: change_channel
\* with the request and the status code of the response kept.
PostChannel ==
    /\ pc \in Waiting
    /\ \E channel_number \in RequestedChannels :
          LET new_index == index_from_channel(channel_number)
          IN  /\ web_index' = IF new_index # -1 THEN new_index ELSE web_index
              /\ api_request' = channel_number
              /\ api_response' = change_channel_status(channel_number)
    /\ UNCHANGED <<sched_vars, now, channel_socket, loop_vars, slot_vars, play_vars,
                   hist_vars>>
    /\ UNCHANGED <<cache_vars, writer_vars, mail_vars, conv_vars>>
    /\ UNCHANGED <<live_vars, guide_vars, osd_vars, catalog_vars, ctor_vars>>
    /\ UNCHANGED watch_vars

\* The handler of POST /api/channel/up.
channel_up ==
    /\ pc \in Waiting
    /\ web_index' = (web_index + 1) % Len(stations)
    /\ UNCHANGED <<sched_vars, now, channel_socket, loop_vars, slot_vars, play_vars,
                   hist_vars>>
    /\ UNCHANGED <<cache_vars, writer_vars, mail_vars, conv_vars, svc_vars>>
    /\ UNCHANGED watch_vars

\* The handler of POST /api/channel/down.
channel_down ==
    /\ pc \in Waiting
    /\ web_index' = (web_index - 1) % Len(stations)
    /\ UNCHANGED <<sched_vars, now, channel_socket, loop_vars, slot_vars, play_vars,
                   hist_vars>>
    /\ UNCHANGED <<cache_vars, writer_vars, mail_vars, conv_vars, svc_vars>>
    /\ UNCHANGED watch_vars

\* The catalog is rebuilt and a tag is left without eligible content.
CatalogLosesTag ==
    /\ pc # "crashed"
    /\ \E t \in Tags :
          /\ clip_index[t] # {}
          /\ clip_index' = [clip_index EXCEPT ![t] = {}]
    /\ UNCHANGED <<persisted, schedules, env_vars, loop_vars, slot_vars, play_vars,
                   hist_vars>>
    /\ UNCHANGED <<cache_vars, writer_vars, mail_vars, conv_vars, svc_vars>>
    /\ UNCHANGED watch_vars

\* ------------------------------------------------------------- play_slot

\* main_loop, top of the while: the guide is shown on a guide channel and
\* any other station is played, unless skip_play holds an outcome over for
\* processing.
MainLoopPlay ==
    /\ pc = "loop"
    /\ IF skip_play
       THEN /\ pc' = "outcome"
            /\ UNCHANGED <<slot_vars, hist_vars, unprocessed>>
       ELSE IF channel_conf.network_type = "guide"
       THEN /\ pc' = "guide"
            /\ unprocessed' = NoCommand
            /\ UNCHANGED <<slot_vars, hist_vars>>
       ELSE /\ pc' = "get_play_point"
            /\ network' = channel_conf.network_name
            /\ when' = now
            /\ oob_adds' = IF network = channel_conf.network_name THEN oob_adds ELSE 0
            /\ unprocessed' = NoCommand
            /\ UNCHANGED <<raised, panic_i, play_point, log, horizon_at_query,
                           days_generated, first_start, faults>>
    /\ UNCHANGED <<sched_vars, env_vars, channel_index, channel_conf, outcome, skip_play,
                   stuck_timer, play_vars>>
    /\ UNCHANGED <<cache_vars, writer_vars, mail_vars, conv_vars, svc_vars>>
    /\ UNCHANGED <<played, standby_shows>>

\* One scheduler call as the history records it.
Call(op, network_name) == [op |-> op, network |-> network_name]

\* The exceptions play_slot's except clause names.
CaughtByPlaySlot_OnlyNotInBounds == {"ScheduleQueryNotInBounds"}

CaughtByPlaySlot == {"ScheduleNotFound", "ScheduleQueryNotInBounds"}

\* play_slot up to the except clause; for a resolved point the entry of
\* _play_from_point, whose empty-plan case fails at once.
PlaySlotQuery ==
    /\ pc = "get_play_point"
    /\ LET r == get_play_point(schedules, network, when)
       IN  /\ log' = <<Call("get_play_point", network)>>
           /\ horizon_at_query' =
                 IF schedules[network] = <<>> THEN 0 ELSE HorizonEnd(schedules[network])
           /\ IF r.kind \in {"ScheduleNotFound", "ScheduleQueryNotInBounds"}
              THEN /\ raised' = r.kind
                   /\ IF r.kind \in CaughtByPlaySlot
                      THEN pc' = "panic" /\ panic_i' = 1
                      ELSE pc' = "crashed" /\ panic_i' = panic_i
                   /\ UNCHANGED <<play_point, outcome, play_vars, oob_adds>>
              ELSE /\ oob_adds' = 0
                   /\ UNCHANGED <<raised, panic_i, stop_time>>
                   /\ IF r = NoPlayPoint
                      THEN /\ current_playing_file_path' = None
                           /\ outcome' = PlayerOutcome("FAILED", "")
                           /\ pc' = "outcome"
                           /\ UNCHANGED <<play_point, entry_i, initial_skip>>
                      ELSE IF Len(r.plan) # 0
                      THEN /\ play_point' = r
                           /\ initial_skip' = r.offset
                           /\ entry_i' = r.index + 1
                           /\ pc' = "play_entry"
                           /\ UNCHANGED <<outcome, current_playing_file_path>>
                      ELSE /\ current_playing_file_path' = None
                           /\ outcome' = PlayerOutcome("FAILED", "Failure getting index...")
                           /\ pc' = "outcome"
                           /\ UNCHANGED <<play_point, initial_skip, entry_i>>
    /\ played' = <<>>
    /\ UNCHANGED <<sched_vars, env_vars, channel_index, channel_conf, skip_play, stuck_timer,
                   network, when, days_generated, first_start, faults>>
    /\ UNCHANGED <<cache_vars, writer_vars, mail_vars, conv_vars, svc_vars>>
    /\ UNCHANGED <<unprocessed, standby_shows>>

\* The statements of schedule_panic, in order.
PanicSteps_ReloadFirst == <<"reload_schedules", "add_days">>

PanicSteps_AddTwice == <<"add_days", "add_days", "reload_schedules">>

PanicSteps_NoReload == <<"add_days">>

PanicSteps == <<"add_days", "reload_schedules">>

\* After a statement of schedule_panic: the next one, or past the last one
\* play_slot's return of FAILED.
PanicAdvance ==
    IF panic_i = Len(PanicSteps)
    THEN /\ pc' = "outcome"
         /\ outcome' = PlayerOutcome("FAILED", "")
         /\ panic_i' = 0
    ELSE /\ panic_i' = panic_i + 1
         /\ UNCHANGED <<pc, outcome>>

\* schedule_panic: LiquidSchedule(station_by_name(network_name)).add_days(1).
\* A GenerationFault is caught neither by play_slot nor by main_loop.
PanicAddDays ==
    /\ pc = "panic"
    /\ PanicSteps[panic_i] = "add_days"
    /\ DaysOf(persisted[network], network) < MaxDays
    /\ \E r \in add_days(persisted[network], network, clip_index, now, 1) :
          /\ persisted' = [persisted EXCEPT ![network] = r.schedule]
          /\ log' = Append(log, Call("add_days", network))
          /\ oob_adds' = IF raised = "ScheduleQueryNotInBounds" THEN oob_adds + 1 ELSE oob_adds
          /\ IF r.fault
             THEN /\ pc' = "crashed"
                  /\ faults' = faults \cup {network}
                  /\ UNCHANGED <<outcome, panic_i, days_generated, first_start>>
             ELSE /\ PanicAdvance
                  /\ days_generated' = [days_generated EXCEPT ![network] = @ + 1]
                  /\ first_start' =
                        IF persisted[network] = <<>>
                        THEN [first_start EXCEPT ![network] = HorizonStart(r.schedule)]
                        ELSE first_start
                  /\ UNCHANGED faults
    /\ UNCHANGED <<schedules, clip_index, env_vars, channel_index, channel_conf, skip_play,
                   stuck_timer, network, when, raised, play_point, play_vars,
                   horizon_at_query>>
    /\ UNCHANGED <<cache_vars, writer_vars, mail_vars, conv_vars, svc_vars>>
    /\ UNCHANGED watch_vars

\* schedule_panic: LiquidManager().reload_schedules().
PanicReload ==
    /\ pc = "panic"
    /\ PanicSteps[panic_i] = "reload_schedules"
    /\ schedules' = reload_schedules(schedules, persisted)
    /\ log' = Append(log, Call("reload_schedules", network))
    /\ PanicAdvance
    /\ UNCHANGED <<persisted, clip_index, env_vars, channel_index, channel_conf, skip_play,
                   stuck_timer, network, when, raised, play_point, play_vars,
                   horizon_at_query, oob_adds, days_generated, first_start, faults>>
    /\ UNCHANGED <<cache_vars, writer_vars, mail_vars, conv_vars, svc_vars>>
    /\ UNCHANGED watch_vars

\* ------------------------------------------------------- _play_from_point

\* os.path.exists(file_path): the catalog's clips and the standby image
\* are on disk.
FileExists(file_path) == file_path \in Clips \cup {"standby.png"}

\* check_channel_socket() over a channel file holding `contents`: what it
\* returns (None is the outcome of status None) and what it leaves in the
\* file.  Non-empty contents are returned as a CHANNEL_CHANGE outcome and the
\* file is truncated.
check_channel_socket_KeepsFile(contents) ==
    IF contents # ""
    THEN [response |-> PlayerOutcome("CHANNEL_CHANGE", contents), contents |-> contents]
    ELSE [response |-> PlayerOutcome(None, ""), contents |-> contents]

check_channel_socket(contents) ==
    IF contents # ""
    THEN [response |-> PlayerOutcome("CHANNEL_CHANGE", contents), contents |-> ""]
    ELSE [response |-> PlayerOutcome(None, ""), contents |-> contents]

\* check_channel_socket() on a non-empty file, its response taken as the
\* outcome.
CheckChannelSocketHit ==
    /\ channel_socket # ""
    /\ outcome' = check_channel_socket(channel_socket).response
    /\ channel_socket' = check_channel_socket(channel_socket).contents

\* _play_from_point returns: its locals are gone.
PlayReturns ==
    /\ pc' = "outcome"
    /\ play_point' = NoPlayPoint
    /\ entry_i' = 0
    /\ initial_skip' = 0
    /\ stop_time' = 0

\* if entry.duration: an absent duration and a duration of zero are both
\* false; either is a duration of 0 here.
HasDuration_Always(entry) == TRUE

HasDuration(entry) == entry.duration # 0

\* _play_from_point, one pass of the for loop up to the monitoring loop:
\* play_file on the entry, then the monitoring deadline; a missing or zero
\* duration fails, and the end of the plan is SUCCESS.
PlayEntry ==
    /\ pc = "play_entry"
    /\ IF entry_i > Len(play_point.plan)
       THEN /\ outcome' = PlayerOutcome("SUCCESS", "")
            /\ PlayReturns
            /\ UNCHANGED <<current_playing_file_path, played>>
       ELSE LET entry == play_point.plan[entry_i]
                total_skip == entry.skip + initial_skip
            IN  /\ current_playing_file_path' =
                      IF FileExists(entry.path) \/ entry.is_stream
                      THEN entry.path ELSE current_playing_file_path
                /\ played' = Append(played, Played(entry_i - 1, entry, total_skip,
                                                   IF HasDuration(entry)
                                                   THEN entry.duration - initial_skip
                                                   ELSE 0))
                /\ IF HasDuration(entry)
                   THEN /\ stop_time' = now + (entry.duration - initial_skip)
                        /\ pc' = "monitor"
                        /\ UNCHANGED <<outcome, play_point, entry_i, initial_skip>>
                   ELSE /\ outcome' = PlayerOutcome("FAILED", "")
                        /\ PlayReturns
    /\ UNCHANGED <<sched_vars, env_vars, channel_index, channel_conf, skip_play, stuck_timer,
                   network, when, raised, panic_i, hist_vars>>
    /\ UNCHANGED <<cache_vars, writer_vars, mail_vars, conv_vars, svc_vars>>
    /\ UNCHANGED <<unprocessed, standby_shows>>

\* The monitoring loop reaches stop_time: on to the next entry, whose skip
\* is its own.
MonitorDone_KeepsSkip ==
    /\ pc = "monitor"
    /\ now >= stop_time
    /\ initial_skip' = initial_skip
    /\ entry_i' = entry_i + 1
    /\ stop_time' = 0
    /\ pc' = "play_entry"
    /\ UNCHANGED <<sched_vars, env_vars, channel_index, channel_conf, outcome, skip_play,
                   stuck_timer, slot_vars, current_playing_file_path, hist_vars>>
    /\ UNCHANGED <<cache_vars, writer_vars, mail_vars, conv_vars, svc_vars>>
    /\ UNCHANGED watch_vars

MonitorDone ==
    /\ pc = "monitor"
    /\ now >= stop_time
    /\ initial_skip' = 0
    /\ entry_i' = entry_i + 1
    /\ stop_time' = 0
    /\ pc' = "play_entry"
    /\ UNCHANGED <<sched_vars, env_vars, channel_index, channel_conf, outcome, skip_play,
                   stuck_timer, slot_vars, current_playing_file_path, hist_vars>>
    /\ UNCHANGED <<cache_vars, writer_vars, mail_vars, conv_vars, svc_vars>>
    /\ UNCHANGED watch_vars

\* The monitoring loop finds a command in the channel file and returns it.
MonitorInterrupted_KeepsPlaying ==
    /\ pc = "monitor"
    /\ now < stop_time
    /\ CheckChannelSocketHit
    /\ pc' = "play_entry"
    /\ entry_i' = entry_i + 1
    /\ initial_skip' = 0
    /\ stop_time' = 0
    /\ unprocessed' = Removed(channel_socket, "monitor")
    /\ UNCHANGED <<sched_vars, now, web_index, channel_index, channel_conf, skip_play,
                   stuck_timer, slot_vars, current_playing_file_path, hist_vars>>
    /\ UNCHANGED <<cache_vars, writer_vars, mail_vars, conv_vars, svc_vars>>
    /\ UNCHANGED <<played, standby_shows>>

MonitorInterrupted ==
    /\ pc = "monitor"
    /\ now < stop_time
    /\ CheckChannelSocketHit
    /\ PlayReturns
    /\ unprocessed' = Removed(channel_socket, "monitor")
    /\ UNCHANGED <<sched_vars, now, web_index, channel_index, channel_conf, skip_play,
                   stuck_timer, network, when, raised, panic_i,
                   current_playing_file_path, hist_vars>>
    /\ UNCHANGED <<cache_vars, writer_vars, mail_vars, conv_vars, svc_vars>>
    /\ UNCHANGED <<played, standby_shows>>

\* show_guide: the guide stays up until check_channel_socket returns a
\* command, which is returned as the outcome.
ShowGuide ==
    /\ pc = "guide"
    /\ CheckChannelSocketHit
    /\ pc' = "outcome"
    /\ unprocessed' = Removed(channel_socket, "guide")
    /\ UNCHANGED <<sched_vars, now, web_index, channel_index, channel_conf, skip_play,
                   stuck_timer, slot_vars, play_vars, hist_vars>>
    /\ UNCHANGED <<cache_vars, writer_vars, mail_vars, conv_vars, svc_vars>>
    /\ UNCHANGED <<played, standby_shows>>

\* ------------------------------------------- the local player's show_guide

\* What StationPlayer.show_guide leaves alone.
beside_guide ==
    <<cache_vars, writer_vars, watch_vars, mail_vars, conv_vars, api_vars, live_vars,
      osd_vars, catalog_vars, ctor_vars>>

\* The guide configurations: with or without a sound, whose file is there or
\* is not.
GuideConfigs ==
    {[play_sound |-> FALSE, sound_to_play |-> "a"]} \cup
    {[play_sound |-> TRUE, sound_to_play |-> f] : f \in {"a", "gone"}}

\* StationPlayer.show_guide up to its loop: the guide process is started and
\* the sound is played, or playback is stopped.
show_guide_start ==
    /\ g_pc = "idle"
    /\ \E guide_config \in GuideConfigs :
          g_playing' = IF guide_config.play_sound /\ FileExists(guide_config.sound_to_play)
                       THEN guide_config.sound_to_play ELSE None
    /\ guide_process' = "started"
    /\ guide_queue' = <<>>
    /\ g_outcome' = PlayerOutcome(None, "")
    /\ g_pc' = "loop"
    /\ UNCHANGED <<sched_vars, env_vars, loop_vars, slot_vars, play_vars, hist_vars>>
    /\ UNCHANGED beside_guide

\* One pass of show_guide's loop that finds a command: hide_window is put on
\* the queue and the guide process is waited for.
show_guide_poll ==
    /\ g_pc = "loop"
    /\ channel_socket # ""
    /\ g_outcome' = check_channel_socket(channel_socket).response
    /\ channel_socket' = check_channel_socket(channel_socket).contents
    /\ guide_queue' = Append(guide_queue, "hide_window")
    /\ g_pc' = "join"
    /\ UNCHANGED <<guide_process, g_playing>>
    /\ UNCHANGED <<sched_vars, now, web_index, loop_vars, slot_vars, play_vars, hist_vars>>
    /\ UNCHANGED beside_guide

\* guide_channel_runner takes hide_window from the queue and ends.
guide_channel_runner ==
    /\ guide_process = "started"
    /\ guide_queue # <<>>
    /\ Head(guide_queue) = "hide_window"
    /\ guide_queue' = Tail(guide_queue)
    /\ guide_process' = "exited"
    /\ UNCHANGED <<g_pc, g_outcome, g_playing>>
    /\ UNCHANGED <<sched_vars, env_vars, loop_vars, slot_vars, play_vars, hist_vars>>
    /\ UNCHANGED beside_guide

\* guide_process.join() with no wait for the process.
show_guide_join_NoWait ==
    /\ g_pc = "join"
    /\ g_pc' = "returned"
    /\ UNCHANGED <<guide_process, guide_queue, g_outcome, g_playing>>
    /\ UNCHANGED <<sched_vars, env_vars, loop_vars, slot_vars, play_vars, hist_vars>>
    /\ UNCHANGED beside_guide

\* guide_process.join() returns once the process has ended, and show_guide
\* returns the response.
show_guide_join ==
    /\ g_pc = "join"
    /\ guide_process = "exited"
    /\ g_pc' = "returned"
    /\ UNCHANGED <<guide_process, guide_queue, g_outcome, g_playing>>
    /\ UNCHANGED <<sched_vars, env_vars, loop_vars, slot_vars, play_vars, hist_vars>>
    /\ UNCHANGED beside_guide

\* The local player's loop takes the outcome; the guide can be shown again.
guide_outcome_taken ==
    /\ g_pc = "returned"
    /\ g_pc' = "idle"
    /\ guide_process' = "none"
    /\ UNCHANGED <<guide_queue, g_outcome, g_playing>>
    /\ UNCHANGED <<sched_vars, env_vars, loop_vars, slot_vars, play_vars, hist_vars>>
    /\ UNCHANGED beside_guide

\* ---------------------------------------------------------- the status file

\* What the status writer and the status display leave alone.
beside_osd ==
    <<cache_vars, writer_vars, watch_vars, mail_vars, conv_vars, api_vars, live_vars,
      guide_vars, catalog_vars, ctor_vars>>

\* One key of a JSON object as it stands in the file.
Token(key, value) == [key |-> key, value |-> value]

\* status_obj of update_status_socket: title, duration and file_path are set
\* when the argument is not None.
status_object(status, network_name, channel, title, duration, file_path) ==
    << Token("status", status), Token("network_name", network_name),
       Token("channel_number", channel), Token("timestamp", "now") >>
    \o (IF title # None THEN <<Token("title", title)>> ELSE <<>>)
    \o (IF duration # None THEN <<Token("duration", duration)>> ELSE <<>>)
    \o (IF file_path # None THEN <<Token("file_path", file_path)>> ELSE <<>>)

\* json.dumps(status_obj): the text of the object, brace to brace.
json_dumps(status_obj) == <<Token("{", "")>> \o status_obj \o <<Token("}", "")>>

\* json.loads(status) in check_status: text that does not run from an
\* opening to its closing brace raises.
json_loads(text) ==
    IF Len(text) >= 2 /\ text[1].key = "{" /\ text[Len(text)].key = "}"
    THEN [ok |-> TRUE, object |-> SubSeq(text, 2, Len(text) - 1)]
    ELSE [ok |-> FALSE, object |-> <<>>]

\* status[key]
Value(status_obj, key) ==
    status_obj[CHOOSE i \in 1..Len(status_obj) : status_obj[i].key = key].value

\* format_text.format(**status), format_text being
\* "{channel_number} - {network_name}".
format_text(status_obj) ==
    <<Value(status_obj, "channel_number"), Value(status_obj, "network_name")>>

\* The status objects the players write: playing a clip on a station, stuck
\* on a station with or without a title, and stopped.
StatusObjects ==
    {status_object("playing", stations[i].network_name, stations[i].channel_number,
                   f, "n/a", f) : i \in 1..Len(stations), f \in {"a"}} \cup
    {status_object("stuck", stations[i].network_name, stations[i].channel_number,
                   title, None, None) : i \in 1..Len(stations), title \in {None, "a"}} \cup
    {status_object("stopped", "", -1, None, None, None)}

\* update_status_socket up to open(status_socket, "w"): as_str is made and
\* the file is truncated.
update_status_socket_open ==
    /\ s_pc = "idle"
    /\ \E status_obj \in StatusObjects : s_str' = json_dumps(status_obj)
    /\ status_socket' = <<>>
    /\ s_pc' = "opened"
    /\ UNCHANGED <<osd_string, time_since_change, osd_read>>
    /\ UNCHANGED <<sched_vars, env_vars, loop_vars, slot_vars, play_vars, hist_vars>>
    /\ UNCHANGED beside_osd

\* fp.write(as_str) and the close: the text reaches the file in one piece or
\* in several, the file being closed after the last.
update_status_socket_write ==
    /\ s_pc = "opened"
    /\ \E k \in (Len(status_socket) + 1)..Len(s_str) :
          /\ status_socket' = SubSeq(s_str, 1, k)
          /\ s_pc' = IF k = Len(s_str) THEN "idle" ELSE "opened"
    /\ UNCHANGED <<s_str, osd_string, time_since_change, osd_read>>
    /\ UNCHANGED <<sched_vars, env_vars, loop_vars, slot_vars, play_vars, hist_vars>>
    /\ UNCHANGED beside_osd

\* check_status with a parse failure that clears the display.
check_status_ClearsOnError(string, since, text) ==
    IF ~json_loads(text).ok
    THEN [string |-> <<>>, time_since_change |-> 0]
    ELSE LET new_string == format_text(json_loads(text).object)
         IN  IF new_string # string
             THEN [string |-> IF new_string # <<>> THEN new_string ELSE string,
                   time_since_change |-> 0]
             ELSE [string |-> string, time_since_change |-> since]

\* StatusDisplay.check_status on the file's text: _text.string and
\* time_since_change after it (config.delay is 0).
check_status(string, since, text) ==
    IF ~json_loads(text).ok
    THEN [string |-> string, time_since_change |-> since]
    ELSE LET new_string == format_text(json_loads(text).object)
         IN  IF new_string # string
             THEN [string |-> IF new_string # <<>> THEN new_string ELSE string,
                   time_since_change |-> 0]
             ELSE [string |-> string, time_since_change |-> since]

\* time_since_change += dt, a frame being a second here and the time being
\* followed up to MaxSince.
Later(since) == IF since < MaxSince THEN since + 1 ELSE since

\* StatusDisplay.update(dt): the time moves on and the status is checked.
update ==
    /\ osd_string' = check_status(osd_string, Later(time_since_change), status_socket).string
    /\ time_since_change' =
          check_status(osd_string, Later(time_since_change), status_socket).time_since_change
    /\ osd_read' = status_socket
    /\ UNCHANGED <<status_socket, s_pc, s_str>>
    /\ UNCHANGED <<sched_vars, env_vars, loop_vars, slot_vars, play_vars, hist_vars>>
    /\ UNCHANGED beside_osd

\* ---------------------------------------------------------------- main_loop

\* The channel change branch with every command treated as "up".
TuneIndex_AlwaysUp(index, payload) ==
    IF index + 1 >= Len(stations) THEN 0 ELSE index + 1

\* manager.stations[channel_index]
StationAt_First(index) == stations[1]

StationAt(index) == stations[index + 1]

\* The channel_index a CHANNEL_CHANGE outcome with `payload` leads to.
TuneIndex(index, payload) ==
    LET obj == JsonLoads(payload)
        direct == payload # "" /\ obj.ok /\ obj.command = "direct"
        down == payload # "" /\ obj.ok /\ obj.command = "down"
        tune_up == ~direct /\ ~down
        tuned == IF direct /\ obj.channel # -1 /\ index_from_channel(obj.channel) # -1
                 THEN index_from_channel(obj.channel)
                 ELSE IF down
                      THEN (IF index - 1 < 0 THEN Len(stations) - 1 ELSE index - 1)
                      ELSE index
    IN  IF tune_up
        THEN (IF tuned + 1 >= Len(stations) THEN 0 ELSE tuned + 1)
        ELSE tuned

\* main_loop after the play call returned: the web interface's channel
\* request, then the branch for the outcome's status.
ProcessOutcome ==
    /\ pc = "outcome"
    /\ skip_play' = FALSE
    /\ IF web_index # channel_index
       THEN /\ channel_index' = web_index
            /\ channel_conf' = StationAt(web_index)
            /\ pc' = "loop"
            /\ standby_shows' = 0
            /\ UNCHANGED <<web_index, stuck_timer, stop_time, current_playing_file_path,
                           unprocessed>>
       ELSE IF outcome.status = "CHANNEL_CHANGE"
       THEN /\ stuck_timer' = 0
            /\ channel_index' = TuneIndex(channel_index, outcome.payload)
            /\ channel_conf' = StationAt(channel_index')
            /\ web_index' = channel_index'
            /\ pc' = "loop"
            /\ standby_shows' = 0
            /\ unprocessed' = NoCommand
            /\ UNCHANGED <<stop_time, current_playing_file_path>>
       ELSE IF outcome.status = "FAILED"
       THEN /\ stuck_timer' = stuck_timer + 1
            /\ IF stuck_timer' >= 2 /\ "standby_image" \in DOMAIN channel_conf
               THEN /\ current_playing_file_path' =
                          IF FileExists(channel_conf.standby_image)
                          THEN channel_conf.standby_image
                          ELSE current_playing_file_path
                    /\ standby_shows' = standby_shows + 1
               ELSE UNCHANGED <<current_playing_file_path, standby_shows>>
            /\ stop_time' = now + 1
            /\ pc' = "sleep"
            /\ UNCHANGED <<channel_index, channel_conf, web_index, unprocessed>>
       ELSE /\ stuck_timer' = 0
            /\ pc' = "loop"
            /\ standby_shows' = 0
            /\ UNCHANGED <<channel_index, channel_conf, web_index, stop_time,
                           current_playing_file_path, unprocessed>>
    /\ raised' = "none"
    /\ when' = 0
    /\ log' = <<>>
    /\ horizon_at_query' = 0
    /\ played' = <<>>
    /\ UNCHANGED <<sched_vars, now, channel_socket, outcome, network, panic_i, play_point,
                   entry_i, initial_skip, oob_adds,
                   days_generated, first_start, faults>>
    /\ UNCHANGED <<cache_vars, writer_vars, mail_vars, conv_vars, svc_vars>>

\* FAILED branch after time.sleep(1): a pending channel command replaces
\* the outcome and is held over by skip_play.
FailedWake ==
    /\ pc = "sleep"
    /\ now >= stop_time
    /\ LET new_outcome == check_channel_socket(channel_socket).response
       IN  IF new_outcome.status # None
           THEN /\ outcome' = new_outcome
                /\ skip_play' = TRUE
                /\ unprocessed' = Removed(channel_socket, "failed")
           ELSE UNCHANGED <<outcome, skip_play, unprocessed>>
    /\ channel_socket' = check_channel_socket(channel_socket).contents
    /\ stop_time' = 0
    /\ pc' = "loop"
    /\ UNCHANGED <<sched_vars, now, web_index, channel_index, channel_conf, stuck_timer,
                   slot_vars, entry_i, initial_skip, current_playing_file_path, hist_vars>>
    /\ UNCHANGED <<cache_vars, writer_vars, mail_vars, conv_vars, svc_vars>>
    /\ UNCHANGED <<played, standby_shows>>

\* ------------------------------------------------------------ the live stream

\* The other variables of the web player and of the tools around it.
beside_live ==
    <<cache_vars, writer_vars, watch_vars, mail_vars, conv_vars, api_vars, guide_vars,
      osd_vars, catalog_vars, ctor_vars>>

\* GET /live, the r-th request: nothing to serve without a playing file;
\* otherwise the process current_stream_process refers to is killed, and for
\* a local file an ffmpeg process is started, kept in current_stream_process
\* and a streaming response over iterfile() is returned.
live_stream(r) ==
    /\ live_responses[r] = "none"
    /\ \A q \in Streams : q < r => live_responses[q] # "none"
    /\ pc \in Waiting
    /\ current_playing_file_path # None
    /\ LET old == current_stream_process
           killed == IF old # 0 /\ stream_process[old] = "running"
                     THEN [stream_process EXCEPT ![old] = "killed"]
                     ELSE stream_process
       IN  /\ killed_by' = IF old # 0 /\ stream_process[old] = "running"
                           THEN [killed_by EXCEPT ![old] = 0] ELSE killed_by
           /\ IF FileExists(current_playing_file_path)
              THEN /\ stream_process' = [killed EXCEPT ![r] = "running"]
                   /\ current_stream_process' = r
                   /\ live_responses' = [live_responses EXCEPT ![r] = "streaming"]
              ELSE /\ stream_process' = killed
                   /\ current_stream_process' = 0
                   /\ live_responses' = [live_responses EXCEPT ![r] = "closed"]
    /\ UNCHANGED read_from
    /\ UNCHANGED <<sched_vars, env_vars, loop_vars, slot_vars, play_vars, hist_vars>>
    /\ UNCHANGED beside_live

\* ffmpeg reaches the end of its input and exits.
FfmpegExits(p) ==
    /\ stream_process[p] = "running"
    /\ stream_process' = [stream_process EXCEPT ![p] = "exited"]
    /\ UNCHANGED <<current_stream_process, live_responses, read_from, killed_by>>
    /\ UNCHANGED <<sched_vars, env_vars, loop_vars, slot_vars, play_vars, hist_vars>>
    /\ UNCHANGED beside_live

\* iterfile()'s finally block for response r: whatever process
\* current_stream_process refers to then has its pipes closed and is killed.
iterfile_finally(r) ==
    LET cur == current_stream_process
    IN  /\ live_responses' = [live_responses EXCEPT ![r] = "closed"]
        /\ current_stream_process' = 0
        /\ IF cur # 0 /\ stream_process[cur] = "running"
           THEN /\ stream_process' = [stream_process EXCEPT ![cur] = "killed"]
                /\ killed_by' = [killed_by EXCEPT ![cur] = r]
           ELSE UNCHANGED <<stream_process, killed_by>>

\* One pass of iterfile()'s loop for response r: a chunk is read from the
\* stdout of the process current_stream_process refers to; no chunk (the
\* process has ended) or an exception (the attribute is None) ends the loop
\* through the finally block.
iterfile_read(r) ==
    /\ live_responses[r] = "streaming"
    /\ IF current_stream_process # 0
          /\ stream_process[current_stream_process] = "running"
       THEN /\ read_from' = [read_from EXCEPT ![r] = @ \cup {current_stream_process}]
            /\ UNCHANGED <<current_stream_process, stream_process, live_responses,
                           killed_by>>
       ELSE /\ iterfile_finally(r)
            /\ UNCHANGED read_from
    /\ UNCHANGED <<sched_vars, env_vars, loop_vars, slot_vars, play_vars, hist_vars>>
    /\ UNCHANGED beside_live

\* The client of response r disconnects: the generator is closed at its
\* yield and its finally block runs.
iterfile_close(r) ==
    /\ live_responses[r] = "streaming"
    /\ iterfile_finally(r)
    /\ UNCHANGED read_from
    /\ UNCHANGED <<sched_vars, env_vars, loop_vars, slot_vars, play_vars, hist_vars>>
    /\ UNCHANGED beside_live

\* ------------------------------------------------------------ the mailbox

\* check_channel_socket, its test after the read: the file is truncated when
\* something was read.
Truncates_Always(contents) == TRUE

Truncates(contents) == contents # ""

\* A writer leaves a document in the channel file while check_channel_socket
\* may be between its read and its truncation.  m_fresh follows the document
\* written to an empty file until it has left the file, m_raced telling
\* whether it was written between a read and the end of that call: a later
\* write that replaces it before it was read ends the watch, the file being
\* a single slot.
MailWrite ==
    /\ \E c \in Payloads :
          /\ channel_socket' = c
          /\ IF channel_socket = ""
             THEN /\ m_fresh' = c
                  /\ m_returns' = 0
                  /\ m_raced' = (m_pc = "read")
             ELSE /\ m_fresh' = IF m_pc = "read" /\ m_contents = m_fresh
                                THEN m_fresh ELSE ""
                  /\ UNCHANGED <<m_returns, m_raced>>
    /\ UNCHANGED <<m_pc, m_contents, m_lost>>
    /\ UNCHANGED <<sched_vars, now, web_index, loop_vars, slot_vars, play_vars, hist_vars>>
    /\ UNCHANGED <<cache_vars, writer_vars, watch_vars, conv_vars, svc_vars>>

\* check_channel_socket, first step: contents = r_sock.read().
MailRead ==
    /\ m_pc = "idle"
    /\ m_pc' = "read"
    /\ m_contents' = channel_socket
    /\ UNCHANGED <<m_fresh, m_lost, m_returns, m_raced>>
    /\ UNCHANGED <<sched_vars, env_vars, loop_vars, slot_vars, play_vars, hist_vars>>
    /\ UNCHANGED <<cache_vars, writer_vars, watch_vars, conv_vars, svc_vars>>

\* check_channel_socket, second step: when something was read the file is
\* opened for writing, which empties it, and what was read is returned;
\* otherwise None is returned.  m_lost records a watched document emptied
\* out of the file by a call that does not return it.
MailTruncateReturn ==
    /\ m_pc = "read"
    /\ m_pc' = "idle"
    /\ m_contents' = ""
    /\ outcome' = check_channel_socket(m_contents).response
    /\ channel_socket' = IF Truncates(m_contents) THEN "" ELSE channel_socket
    /\ m_lost' = (m_lost \/ (/\ Truncates(m_contents)
                             /\ m_fresh # ""
                             /\ channel_socket = m_fresh
                             /\ m_contents # m_fresh))
    /\ m_returns' = IF m_fresh # "" /\ outcome'.payload = m_fresh
                    THEN m_returns + 1 ELSE m_returns
    /\ m_fresh' = IF channel_socket' = "" THEN "" ELSE m_fresh
    /\ UNCHANGED m_raced
    /\ UNCHANGED <<sched_vars, now, web_index, pc, channel_index, channel_conf, skip_play,
                   stuck_timer, slot_vars, play_vars, hist_vars>>
    /\ UNCHANGED <<cache_vars, writer_vars, watch_vars, conv_vars, svc_vars>>

NextMailbox ==
    \/ MailWrite
    \/ MailRead
    \/ MailTruncateReturn

\* ------------------------------------------------- the JSON projection

\* datetime.isoformat(): the text of a time, its calendar day and its second
\* of the day.
isoformat(t) == [date |-> t \div DayLength(stations[1].network_name),
                 time |-> t % DayLength(stations[1].network_name)]

\* What a reader of the JSON file makes of that text.
fromisoformat(text) == text.date * DayLength(stations[1].network_name) + text.time

\* datetime_to_json(obj) for a datetime.
datetime_to_json(obj) == [type |-> "datetime", value |-> isoformat(obj)]

\* getattr(entry, 'is_stream', False)
getattr_is_stream_Dropped(entry) == FALSE

getattr_is_stream(entry) ==
    IF "is_stream" \in DOMAIN entry THEN entry.is_stream ELSE FALSE

\* entry_data of one PlanEntry.
entry_data(entry) ==
    [path |-> entry.path, duration |-> entry.duration, skip |-> entry.skip,
     is_stream |-> getattr_is_stream(entry)]

RECURSIVE plan_data(_)
\* The loop over block.plan: entry_data appended in order.
plan_data(plan) ==
    IF plan = <<>> THEN <<>>
    ELSE <<entry_data(Head(plan))>> \o plan_data(Tail(plan))

\* block_data of one block.
block_data(block) ==
    [start_time |-> datetime_to_json(block.start_time),
     end_time |-> datetime_to_json(block.end_time),
     title |-> block.title,
     plan |-> plan_data(block.plan)]

RECURSIVE json_schedule(_)
\* The loop over schedule_blocks: block_data appended in order.
json_schedule(schedule_blocks) ==
    IF schedule_blocks = <<>> THEN <<>>
    ELSE <<block_data(Head(schedule_blocks))>> \o json_schedule(Tail(schedule_blocks))

\* The PlanEntry values a schedule file can hold: with a duration or without
\* one, written by a version that had the is_stream attribute or by one that
\* had not.
FileEntries ==
    {[path |-> "a", duration |-> d, skip |-> 0] : d \in {0, 1}} \cup
    {[path |-> "a", duration |-> d, skip |-> 0, is_stream |-> f] :
        d \in {0, 1}, f \in BOOLEAN}

\* Plans of up to two of them.
FilePlans ==
    {<<>>} \cup {<<e>> : e \in FileEntries} \cup
    {<<e1, e2>> : e1 \in FileEntries, e2 \in FileEntries}

\* The blocks of a day of the first station over such plans.
FileBlock(k, plan) ==
    LET slots == stations[1].slots
    IN  [start_time |-> SlotsLength(SubSeq(slots, 1, k - 1)),
         end_time |-> SlotsLength(SubSeq(slots, 1, k)),
         title |-> slots[k].title, plan |-> plan]

\* The schedule files a conversion can be given: none, one or both blocks of
\* that day.
ScheduleFiles ==
    {<<>>} \cup {<<FileBlock(1, p)>> : p \in FilePlans} \cup
    {<<FileBlock(1, p), FileBlock(2, q)>> : p \in FilePlans, q \in FilePlans}

\* convert_schedule_to_json on a schedule file, once per output file: the
\* pickle is loaded and the JSON schedule is written to the output file.
ConvertScheduleToJson ==
    /\ ~c_json.written
    /\ \E schedule_blocks \in ScheduleFiles :
          /\ c_blocks' = schedule_blocks
          /\ c_json' = [written |-> TRUE, blocks |-> json_schedule(schedule_blocks)]
    /\ UNCHANGED <<sched_vars, env_vars, loop_vars, slot_vars, play_vars, hist_vars>>
    /\ UNCHANGED <<cache_vars, writer_vars, watch_vars, mail_vars, svc_vars>>

\* ------------------------------------------------- the catalog conversion

\* What convert_catalog_to_json leaves alone.
beside_catalog ==
    <<cache_vars, writer_vars, watch_vars, mail_vars, conv_vars, api_vars, live_vars,
      guide_vars, osd_vars, ctor_vars>>

\* The catalog entries a catalog file can hold: a clip without scheduling
\* hints or with one, a hint being an object of a class of its own.
CatalogEntries ==
    {[path |-> f, hints |-> h] : f \in {"a", "b"}, h \in {<<>>, <<"MonthHint">>}}

\* The lists of up to two of them.
CatalogLists ==
    {<<>>} \cup {<<e>> : e \in CatalogEntries} \cup
    {<<e1, e2>> : e1 \in CatalogEntries, e2 \in CatalogEntries}

\* The catalog files a conversion can be given: one that pickle cannot load,
\* and the catalogs whose clip_index holds such lists under two tags (and
\* whose sequences are empty).
CatalogFiles ==
    {NoCatalog} \cup
    {[loaded |-> TRUE, clip_index |-> << [tag |-> "t1", entries |-> l1],
                                        [tag |-> "t3", entries |-> l2] >>] :
        l1 \in CatalogLists, l2 \in CatalogLists}

\* entry_data of one catalog entry (the attributes the model follows).
catalog_entry_data(entry) == [path |-> entry.path, hints |-> entry.hints]

\* What the encoder does with a value's hints: datetime_to_json returns an
\* object it does not know as it is, and the encoder raises on meeting the
\* same object again.
Encodes(data) == data.hints = <<>>

RECURSIVE json_entries(_)
\* The entries of all tags in the order json.dump reaches them.
json_entries(items) ==
    IF items = <<>> THEN <<>>
    ELSE LET tagged == Head(items)
         IN  [i \in 1..Len(tagged.entries) |-> catalog_entry_data(tagged.entries[i])]
             \o json_entries(Tail(items))

RECURSIVE json_dump(_)
\* json.dump(json_catalog, f, indent=2, default=datetime_to_json): the
\* chunks written to f one after the other until the end or until a value
\* makes the encoder raise, and whether the end was reached.
json_dump(entries) ==
    IF entries = <<>> THEN [chunks |-> <<>>, closed |-> TRUE]
    ELSE IF ~Encodes(Head(entries)) THEN [chunks |-> <<>>, closed |-> FALSE]
    ELSE LET rest == json_dump(Tail(entries))
         IN  [chunks |-> <<Head(entries)>> \o rest.chunks, closed |-> rest.closed]

\* convert_catalog_to_json on a catalog file, once: the pickle is loaded,
\* json_catalog is built, output_path is opened for writing and the document
\* is dumped; any exception is caught and answered with False.
ConvertCatalogToJson ==
    /\ k_return = "none"
    /\ \E catalog_data \in CatalogFiles :
          /\ k_catalog' = catalog_data
          /\ IF ~catalog_data.loaded
             THEN /\ k_return' = "False"
                  /\ UNCHANGED k_output
             ELSE LET written == json_dump(json_entries(catalog_data.clip_index))
                  IN  /\ k_output' = [exists |-> TRUE, chunks |-> written.chunks,
                                      closed |-> written.closed]
                      /\ k_return' = IF written.closed THEN "True" ELSE "False"
    /\ UNCHANGED <<sched_vars, env_vars, loop_vars, slot_vars, play_vars, hist_vars>>
    /\ UNCHANGED beside_catalog

\* ---------------------------------------------------------- catalog builder

\* The player's own state, which the catalog builder never touches.
player_vars ==
    <<sched_vars, channel_socket, web_index, loop_vars, slot_vars, play_vars, hist_vars,
      watch_vars, mail_vars, conv_vars, svc_vars>>

\* The file cache and the break points together.
Store == [file_cache |-> file_cache, break_points |-> break_points]

\* What the last catalog operation was, and the files whose cache record
\* it created, replaced or deleted.
Operation(op, arg, cache_after) ==
    [op |-> op, arg |-> arg,
     touched |-> {f \in FileSet : cache_after[f] # file_cache[f]}]

\* A second passes between two catalog operations.
Wait ==
    /\ now < MaxWait
    /\ now' = now + 1
    /\ UNCHANGED <<player_vars, cache_vars, writer_vars>>

\* A file of the content directory is added, rewritten or removed.
ChangeFile ==
    /\ \E f \in FileSet :
       \E state \in DiskStates(f) :
          /\ state # disk[f]
          /\ disk' = [disk EXCEPT ![f] = state]
    /\ prev' = Operation("change", 0, file_cache)
    /\ detect_log' = {}
    /\ lost_points' = {}
    /\ UNCHANGED <<file_cache, break_points, detections>>
    /\ UNCHANGED <<player_vars, now, writer_vars>>

\* The paths a caller passes as db_path: none, or a database of its own.
DbPaths == {None, "explicit.db"}

\* FluidBuilder.__init__(db_path): self.db_path is assigned when db_path is
\* None, then the database at self.db_path is connected to and initialised;
\* reading the attribute that was never assigned raises AttributeError and
\* no builder is made.
FluidBuilder_init ==
    /\ fb_db_path = "unset"
    /\ \E db_path \in DbPaths :
          /\ fb_arg' = db_path
          /\ IF db_path = None
             THEN /\ fb_db_path' = ConfDbPath
                  /\ fb_initialised' = fb_initialised \cup {ConfDbPath}
                  /\ fb_raised' = "none"
             ELSE /\ fb_raised' = "AttributeError"
                  /\ UNCHANGED <<fb_db_path, fb_initialised>>
    /\ UNCHANGED <<sched_vars, env_vars, loop_vars, slot_vars, play_vars, hist_vars>>
    /\ UNCHANGED <<cache_vars, writer_vars, watch_vars, mail_vars, conv_vars, api_vars,
                   live_vars, guide_vars, osd_vars, catalog_vars>>

\* FluidBuilder.scan_file_cache(content_dir): the files found are handed to
\* iterate_file_entries, and leaving the with block commits.
ScanFileCache ==
    /\ prev.op = "scan" => prev.arg < MaxScans
    /\ LET file_list == rfind_media(disk)
           after == iterate_file_entries(Store, file_list, disk, now)
       IN  /\ file_cache' = after.file_cache
           /\ break_points' = after.break_points
           /\ detections' = [f \in FileSet |->
                                IF after.file_cache[f] # file_cache[f] THEN 0
                                ELSE detections[f]]
    /\ prev' = Operation("scan", IF prev.op = "scan" THEN prev.arg + 1 ELSE 1, file_cache')
    /\ detect_log' = {}
    /\ lost_points' = {}
    /\ UNCHANGED disk
    /\ UNCHANGED <<player_vars, now, writer_vars>>

\* FluidBuilder.trim_file_cache(from_time).
TrimFileCache ==
    /\ \E from_time \in 0..(now + 1) :
          /\ file_cache' = trim_file_entries(file_cache, from_time)
          /\ prev' = Operation("trim", from_time, file_cache')
    /\ detections' = [f \in FileSet |->
                         IF file_cache'[f] # file_cache[f] THEN 0 ELSE detections[f]]
    /\ detect_log' = {}
    /\ lost_points' = {}
    /\ UNCHANGED <<disk, break_points>>
    /\ UNCHANGED <<player_vars, now, writer_vars>>

\* scan_breaks, "Check the cache because we require the duration": the
\* record of every listed path that has one, by path.
cached_files_Inferred(cache, file_paths) ==
    [path \in {file_paths[i] : i \in 1..Len(file_paths)} |->
        IF check_file_cache(cache, path) # NoRecord THEN check_file_cache(cache, path)
        ELSE [fingerprint |-> 0, duration |-> 1, last_verified |-> 0]]

cached_files(cache, file_paths) ==
    [path \in {f \in {file_paths[i] : i \in 1..Len(file_paths)} :
                  check_file_cache(cache, f) # NoRecord} |->
        check_file_cache(cache, path)]

\* scan_breaks before its for loop: nothing detected, nothing written; the
\* points are those the connection reads.
BeforeLoop(points) == [points |-> points, calls |-> {}, written |-> {}, raised |-> FALSE]

RECURSIVE scan_breaks_loop(_, _, _, _, _)
\* scan_breaks, the for loop over file_list.  A path with a record and no
\* break point read back is handed to black_detect with the record's
\* duration and its result is added; black_detect raising (for the files in
\* `failing`) ends the loop.
scan_breaks_loop(run, file_list, cached, d, failing) ==
    IF file_list = <<>> \/ run.raised THEN run
    ELSE LET rfp == file_list[1]
             call == [path |-> rfp, duration |-> cached[rfp].duration]
             breaks == detect_breaks(rfp, d[rfp].fingerprint, cached[rfp].duration)
             next ==
                IF rfp \in DOMAIN cached
                THEN IF get_break_points(run.points, rfp) # <<>>
                     THEN run
                     ELSE IF rfp \in failing
                     THEN [run EXCEPT !.calls = @ \cup {call}, !.raised = TRUE]
                     ELSE [run EXCEPT !.calls = @ \cup {call},
                                      !.points = add_break_points(@, rfp, breaks),
                                      !.written = @ \cup {rfp}]
                ELSE run
         IN  scan_breaks_loop(next, Tail(file_list), cached, d, failing)

\* The sqlite3 connection as a context manager around a transaction: what
\* was added is committed when the block ends and rolled back when an
\* exception leaves it.
ConnectionExit(before, after, failed) == IF failed THEN before ELSE after

\* FluidBuilder.scan_breaks(dir_path) over an existing directory.
ScanBreaks ==
    /\ \A f \in FileSet : detections[f] < MaxDetections
    /\ \E failing \in SUBSET FileSet :
          LET file_list == rfind_media(disk)
              cached == cached_files(file_cache, file_list)
              run == scan_breaks_loop(BeforeLoop(break_points), file_list, cached,
                                      disk, failing)
          IN  /\ break_points' = ConnectionExit(break_points, run.points, run.raised)
              /\ lost_points' = {f \in run.written : break_points'[f] # run.points[f]}
              /\ detections' = [f \in FileSet |->
                                   IF \E c \in run.calls : c.path = f
                                   THEN detections[f] + 1 ELSE detections[f]]
              /\ detect_log' = {[path |-> c.path, duration |-> c.duration,
                                 record |-> file_cache[c.path],
                                 fingerprint |-> disk[c.path].fingerprint] :
                                    c \in run.calls}
    /\ prev' = Operation("scan_breaks", 0, file_cache)
    /\ UNCHANGED <<disk, file_cache>>
    /\ UNCHANGED <<player_vars, now, writer_vars>>

\* FluidBuilder.get_breaks(fname).
get_breaks(fname) == get_break_points(break_points, fname)

\* ------------------------------------------------- two players, one store

\* What the players on one store leave alone: the single player's own state
\* and the catalog builder's.
solo_vars ==
    <<schedules, clip_index, env_vars, loop_vars, slot_vars, play_vars, hist_vars,
      watch_vars, mail_vars, conv_vars, svc_vars,
      cache_vars>>

\* LiquidManager's schedules as player p holds them.
SchedulesOf(p) ==
    [n \in Networks |-> IF n = SharedNetwork THEN w_schedules[p] ELSE <<>>]

\* play_slot of player p: a query that resolves is played; one that raises
\* ScheduleNotFound or ScheduleQueryNotInBounds enters schedule_panic.
WriterPlaySlot(p) ==
    /\ w_pc[p] = "loop"
    /\ get_play_point(SchedulesOf(p), SharedNetwork, now).kind \in CaughtByPlaySlot
    /\ w_pc' = [w_pc EXCEPT ![p] = "panic"]
    /\ UNCHANGED <<persisted, w_loaded, w_schedules, w_bases, w_divergent, solo_vars>>

\* schedule_panic of player p, LiquidSchedule(...).add_days(1) begins: the
\* schedule to extend is read from the store.  Nothing is taken or awaited
\* before it.
WriterAddDaysLoad(p) ==
    /\ w_pc[p] = "panic"
    /\ DaysOf(persisted[SharedNetwork], SharedNetwork) < MaxDays
    /\ w_loaded' = [w_loaded EXCEPT ![p] = persisted[SharedNetwork]]
    /\ w_pc' = [w_pc EXCEPT ![p] = "add_days"]
    /\ UNCHANGED <<persisted, w_schedules, w_bases, w_divergent, solo_vars>>

\* add_days(1) of player p ends: the schedule read, with the generated day
\* appended, is persisted.
WriterAddDaysCommit(p) ==
    /\ w_pc[p] = "add_days"
    /\ \E s \in generate_day(w_loaded[p], SharedNetwork, clip_index, now) :
          persisted' = [persisted EXCEPT ![SharedNetwork] = s]
    /\ w_bases' = w_bases \cup {Len(w_loaded[p])}
    /\ w_divergent' = (w_divergent \/ Len(w_loaded[p]) \in w_bases)
    /\ w_loaded' = [w_loaded EXCEPT ![p] = <<>>]
    /\ w_pc' = [w_pc EXCEPT ![p] = "reload"]
    /\ UNCHANGED <<w_schedules, solo_vars>>

\* schedule_panic of player p, LiquidManager().reload_schedules(); play_slot
\* returns FAILED and main_loop comes round again.
WriterReload(p) ==
    /\ w_pc[p] = "reload"
    /\ w_schedules' = [w_schedules EXCEPT ![p] =
                          reload_schedules(SchedulesOf(p), persisted)[SharedNetwork]]
    /\ w_pc' = [w_pc EXCEPT ![p] = "loop"]
    /\ UNCHANGED <<persisted, w_loaded, w_bases, w_divergent, solo_vars>>

\* ------------------------------------------------------------ specifications

\* The catalog of a library whose tags t1 and t3 hold one clip each and whose
\* tag t2 holds none.
SmallCatalog == [t1 |-> {"b"}, t2 |-> {}, t3 |-> {"a"}]

\* The player under a remote control over the small catalog, started on any
\* store a start can find.
Init == \E stored \in StoresAtStart(SmallCatalog) : InitWith(SmallCatalog, stored)

Next ==
    \/ Tick
    \/ WriteChannelCommand
    \/ MainLoopPlay
    \/ PlaySlotQuery
    \/ PanicAddDays
    \/ PanicReload
    \/ PlayEntry
    \/ MonitorDone
    \/ MonitorInterrupted
    \/ ShowGuide
    \/ ProcessOutcome
    \/ FailedWake

Spec == Init /\ [][Next]_vars

\* The player left on its first station, over a catalog whose tag t1 holds
\* every clip, until a rebuild leaves a tag empty.
InitSched == InitWith([t1 |-> Clips, t2 |-> {}, t3 |-> {"a"}], NoSchedules)

NextSched ==
    \/ Tick
    \/ CatalogLosesTag
    \/ MainLoopPlay
    \/ PlaySlotQuery
    \/ PanicAddDays
    \/ PanicReload
    \/ PlayEntry
    \/ MonitorDone
    \/ ProcessOutcome
    \/ FailedWake

SpecSched == InitSched /\ [][NextSched]_vars

\* A catalog whose tag t1 fills the show with two entries and whose tag t2
\* holds nothing.
WebCatalog == [t1 |-> {"a"}, t2 |-> {}, t3 |-> {"a"}]

\* A day of the first station as an earlier run or another tool can have
\* left it in the store: the show's second entry has no duration and the
\* news has an empty plan.
DegenerateDay ==
    << [start_time |-> 0, end_time |-> 2, title |-> "show",
        plan |-> << [path |-> "a", duration |-> 1, skip |-> 0, is_stream |-> FALSE],
                    [path |-> "b", duration |-> 0, skip |-> 0, is_stream |-> FALSE],
                    [path |-> "a", duration |-> 1, skip |-> 0, is_stream |-> FALSE] >>],
       [start_time |-> 2, end_time |-> 3, title |-> "news", plan |-> <<>>] >>

\* A day of the first station left in the store by a run over other content:
\* the show resumes a clip one second in and goes on with a second clip.
ResumedDay ==
    << [start_time |-> 0, end_time |-> 2, title |-> "show",
        plan |-> << [path |-> "b", duration |-> 2, skip |-> 1, is_stream |-> FALSE],
                    [path |-> "a", duration |-> 1, skip |-> 0, is_stream |-> FALSE] >>],
       [start_time |-> 2, end_time |-> 3, title |-> "news",
        plan |-> << [path |-> "a", duration |-> 1, skip |-> 0, is_stream |-> FALSE] >>] >>

\* A day of the first station whose show names, after a clip, a file that
\* has since been removed from the content directory.
StaleDay ==
    << [start_time |-> 0, end_time |-> 2, title |-> "show",
        plan |-> << [path |-> "a", duration |-> 1, skip |-> 0, is_stream |-> FALSE],
                    [path |-> "gone", duration |-> 1, skip |-> 0, is_stream |-> FALSE] >>],
       [start_time |-> 2, end_time |-> 3, title |-> "news",
        plan |-> << [path |-> "a", duration |-> 1, skip |-> 0, is_stream |-> FALSE] >>] >>

\* The stores the player can start on.
RemoteStores ==
    {NoSchedules} \cup
    {[NoSchedules EXCEPT ![stations[1].network_name] = day] :
        day \in {DegenerateDay, ResumedDay}}

\* The player under a remote control, over the two-entry show and any of
\* these stores.
InitRemote == \E stored \in RemoteStores : InitWith(WebCatalog, stored)

SpecRemote == InitRemote /\ [][Next]_vars

\* The player under a remote control, started on no schedules or on the day
\* with the removed file.
InitStale ==
    \E stored \in {NoSchedules, [NoSchedules EXCEPT ![stations[1].network_name] = StaleDay]} :
        InitWith(WebCatalog, stored)

SpecStale == InitStale /\ [][Next]_vars

\* The conversion tool run on schedule files.
SpecConvert == InitWith(SmallCatalog, NoSchedules) /\ [][ConvertScheduleToJson]_vars

\* The channel file between one writer and one reader, from the empty file
\* main_loop starts with.
SpecMailbox == InitWith(SmallCatalog, NoSchedules) /\ [][NextMailbox]_vars

\* The web player under a remote control and a browser.
InitWeb == InitWith(WebCatalog, NoSchedules)

NextWeb ==
    \/ Tick
    \/ WriteChannelPayload
    \/ change_channel
    \/ channel_up
    \/ channel_down
    \/ MainLoopPlay
    \/ PlaySlotQuery
    \/ PanicAddDays
    \/ PanicReload
    \/ PlayEntry
    \/ MonitorDone
    \/ MonitorInterrupted
    \/ ShowGuide
    \/ ProcessOutcome
    \/ FailedWake

SpecWeb == InitWeb /\ [][NextWeb]_vars

\* One step of the player's own thread.
PlayerStep ==
    \/ MainLoopPlay
    \/ PlaySlotQuery
    \/ PanicAddDays
    \/ PanicReload
    \/ PlayEntry
    \/ MonitorDone
    \/ ProcessOutcome
    \/ FailedWake

\* The web player with a browser as its only remote control: nothing writes
\* the channel file.  The player's thread keeps running.
NextBrowser ==
    \/ Tick
    \/ change_channel
    \/ channel_up
    \/ channel_down
    \/ PlayerStep

SpecBrowser ==
    /\ InitWith(WebCatalog, NoSchedules)
    /\ [][NextBrowser]_vars
    /\ WF_vars(PlayerStep)
    /\ WF_vars(Tick)

\* The catalog builder at work on a content directory whose files come, change
\* and go, the player left at the top of its loop.
InitBuilder == InitWith(SmallCatalog, NoSchedules)

NextBuilder ==
    \/ Wait
    \/ ChangeFile
    \/ ScanFileCache
    \/ TrimFileCache
    \/ ScanBreaks

SpecBuilder == InitBuilder /\ [][NextBuilder]_vars

\* The field player and the web player tuned to one network of one store,
\* each running its own play_slot as the clock advances.
InitWriters == InitWith(SmallCatalog, NoSchedules)

NextWriters ==
    \/ Tick
    \/ \E p \in Players : WriterPlaySlot(p)
    \/ \E p \in Players : WriterAddDaysLoad(p)
    \/ \E p \in Players : WriterAddDaysCommit(p)
    \/ \E p \in Players : WriterReload(p)

SpecWriters == InitWriters /\ [][NextWriters]_vars

\* ------------------------------------------------------------------ claims

IsPrefix(s, t) == Len(s) <= Len(t) /\ SubSeq(t, 1, Len(s)) = s

\* The scheduler calls of one recovery, in the order the contract gives.
ExpectedRecovery(network_name) ==
    << Call("get_play_point", network_name), Call("add_days", network_name),
       Call("reload_schedules", network_name) >>

\* The 0-based entries of `plan` whose span of the prefix sums holds `elapsed`.
ActiveEntries(plan, elapsed) ==
    {i \in 0..(Len(plan) - 1) :
        PrefixSum(plan, i) <= elapsed /\ elapsed < PrefixSum(plan, i + 1)}

\* The timestamps and network names queries are checked for.
QueryTimes == 0..(MaxNow + 1)

QueryNetworks == Networks \cup {"n0"}

InHorizon(schedule, timestamp) ==
    /\ schedule # <<>>
    /\ HorizonStart(schedule) <= timestamp
    /\ timestamp < HorizonEnd(schedule)

\* C1: once get_play_point has raised ScheduleQueryNotInBounds inside
\* play_slot, the scheduler calls of that play_slot are, in this order and
\* each at most once, get_play_point, add_days, reload_schedules, all for
\* that network: add_days comes first, reload_schedules only after add_days
\* has returned, and no second get_play_point before reload_schedules has
\* returned; when play_slot returns, all three have been made.
C1_RecoveryOrdering ==
    raised = "ScheduleQueryNotInBounds" =>
        /\ IsPrefix(log, ExpectedRecovery(network))
        /\ (pc = "outcome" => log = ExpectedRecovery(network))

C1_Witness ==
    /\ pc = "outcome"
    /\ raised = "ScheduleQueryNotInBounds"
    /\ log = ExpectedRecovery(network)

\* C2 as claimed: when get_play_point raises ScheduleNotFound, play_slot
\* makes no add_days and no reload_schedules call.
C2_NotFoundNotRecovered ==
    raised = "ScheduleNotFound" =>
        \A i \in 1..Len(log) : log[i].op \notin {"add_days", "reload_schedules"}

\* C2 amended: ScheduleNotFound is recovered exactly like
\* ScheduleQueryNotInBounds.  play_slot catches it, calls add_days and then
\* reload_schedules for that network and returns FAILED; the exception never
\* leaves play_slot (the only exception that does is add_days' own).
C2_NotFoundRecovered ==
    raised = "ScheduleNotFound" =>
        /\ pc \in {"panic", "outcome", "crashed"}
        /\ IsPrefix(log, ExpectedRecovery(network))
        /\ (pc = "outcome" =>
                log = ExpectedRecovery(network) /\ outcome = PlayerOutcome("FAILED", ""))
        /\ (pc = "crashed" => log[Len(log)].op = "add_days")

C2_Witness ==
    /\ pc = "outcome"
    /\ raised = "ScheduleNotFound"
    /\ log = ExpectedRecovery(network)
    /\ outcome.status = "FAILED"

\* C3 as claimed: one out-of-bounds condition causes at most one add_days
\* call, however far the timestamp lies beyond the horizon.
C3_AtMostOneExtension == oob_adds <= 1

\* C3 amended: within one play_slot call get_play_point is called once and
\* add_days at most once, and after the recovery play_slot returns FAILED
\* without querying again; the retry is main_loop's next iteration, which
\* extends again whenever its query is out of bounds again.
C3_OneExtensionPerPlaySlot ==
    /\ Cardinality({i \in 1..Len(log) : log[i].op = "add_days"}) <= 1
    /\ Cardinality({i \in 1..Len(log) : log[i].op = "get_play_point"}) <= 1
    /\ (pc = "outcome" /\ raised # "none" => outcome.status = "FAILED")

C3_Witness ==
    /\ pc = "outcome"
    /\ raised = "ScheduleQueryNotInBounds"
    /\ oob_adds = 2
    /\ log = ExpectedRecovery(network)

\* C4 as claimed: for every network and every timestamp inside the horizon
\* get_play_point returns a PlayPoint whose index is a position of the plan
\* and whose offset is at least 0 and less than that entry's duration.
C4_OffsetWithinEntry ==
    \A n \in Networks, t \in QueryTimes :
        InHorizon(schedules[n], t) =>
            LET r == get_play_point(schedules, n, t)
            IN  /\ r.kind = "PlayPoint"
                /\ r.index \in 0..(Len(r.plan) - 1)
                /\ 0 <= r.offset
                /\ r.offset < r.plan[r.index + 1].duration

\* The first block of `schedule` covering `timestamp`.
CoveringBlock(schedule, timestamp) ==
    schedule[CHOOSE i \in 1..Len(schedule) :
                /\ ContainsTime(schedule[i], timestamp)
                /\ \A j \in 1..(i - 1) : ~ContainsTime(schedule[j], timestamp)]

\* The block of the scenario: seconds [0, 3000), two entries of 1500 seconds.
ScenarioSchedules ==
    [n \in Networks |->
        << [start_time |-> 0, end_time |-> 3000, title |-> "show",
            plan |-> << [path |-> "a", duration |-> 1500, skip |-> 0, is_stream |-> FALSE],
                        [path |-> "b", duration |-> 1500, skip |-> 0, is_stream |-> FALSE] >>] >>]

\* C5: at a timestamp t inside block B, get_play_point returns the one index
\* i with sum(durations of plan[0..i-1]) <= t - B.start_time
\* < sum(durations of plan[0..i]), and for an entry with skip 0 the offset
\* (t - B.start_time) - sum(durations of plan[0..i-1]); the block [0, 3000)
\* with durations 1500, 1500 queried at 1600 gives index 1, offset 100.
C5_PrefixSumIndex ==
    /\ \A n \in Networks, t \in QueryTimes :
          InHorizon(schedules[n], t) =>
              LET block == CoveringBlock(schedules[n], t)
                  elapsed == t - block.start_time
                  r == get_play_point(schedules, n, t)
              IN  /\ r.kind = "PlayPoint"
                  /\ r.plan = block.plan
                  /\ ActiveEntries(block.plan, elapsed) = {r.index}
                  /\ (block.plan[r.index + 1].skip = 0 =>
                          r.offset = elapsed - PrefixSum(block.plan, r.index))
    /\ LET r == get_play_point(ScenarioSchedules, "n1", 1600)
       IN  r.kind = "PlayPoint" /\ r.index = 1 /\ r.offset = 100

C5_Witness ==
    /\ pc = "monitor"
    /\ play_point.kind = "PlayPoint"
    /\ play_point.index = 1
    /\ play_point.plan[2].skip = 0
    /\ play_point.offset = 0
    /\ play_point = get_play_point(schedules, network, when)

\* C6: a network with no schedule, or a timestamp before the first block's
\* start, always fails with ScheduleNotFound; a timestamp at or beyond the
\* horizon end of a non-empty schedule always fails with
\* ScheduleQueryNotInBounds.
C6_ErrorClassification ==
    \A n \in QueryNetworks, t \in QueryTimes :
        LET r == get_play_point(schedules, n, t)
            schedule == IF n \in Networks THEN schedules[n] ELSE <<>>
        IN  /\ (schedule = <<>> => r = ScheduleNotFound)
            /\ (schedule # <<>> /\ t < HorizonStart(schedule) => r = ScheduleNotFound)
            /\ (schedule # <<>> /\ t >= HorizonEnd(schedule) => r = ScheduleQueryNotInBounds)

C6_Witness ==
    /\ pc = "panic"
    /\ raised = "ScheduleQueryNotInBounds"
    /\ HorizonStart(schedules[network]) > 0
    /\ when >= HorizonEnd(schedules[network])
    /\ schedules["n2"] = <<>>

C8_Contiguous ==
    \A n \in Networks :
        \A i \in 1..(Len(persisted[n]) - 1) :
            persisted[n][i].end_time = persisted[n][i + 1].start_time

C8_Witness ==
    /\ DaysOf(persisted["n1"], "n1") >= 2
    /\ "n1" \in faults

\* C9: every add_days(network, 1) that returns advances the network's
\* horizon end by exactly one calendar day, so two of them in sequence
\* advance it by exactly two, and no day is generated twice.
C9_OneDayPerAddDays ==
    \A n \in Networks :
        persisted[n] # <<>> =>
            /\ HorizonEnd(persisted[n]) = first_start[n] + days_generated[n] * DayLength(n)
            /\ HorizonStart(persisted[n]) = first_start[n]
            /\ DaysOf(persisted[n], n) = days_generated[n]
            /\ \A i, j \in 1..Len(persisted[n]) :
                   i # j => persisted[n][i].start_time # persisted[n][j].start_time

C9_Witness ==
    /\ days_generated["n1"] = 2
    /\ HorizonEnd(persisted["n1"]) = first_start["n1"] + 2 * DayLength("n1")
    /\ pc = "outcome"
    /\ log = ExpectedRecovery("n1")

\* C10: every step leaves the blocks already persisted for a network as they
\* were (same start_time, end_time, title and plan), adding blocks only at
\* the end, and the horizon end never decreases.
C10_AppendOnly ==
    [][\A n \in Networks :
          /\ IsPrefix(persisted[n], persisted'[n])
          /\ (persisted[n] # <<>> =>
                 /\ persisted'[n] # <<>>
                 /\ HorizonEnd(persisted'[n]) >= HorizonEnd(persisted[n]))]_vars

C10_Witness ==
    /\ DaysOf(persisted["n1"], "n1") >= 2
    /\ pc = "outcome"
    /\ log = ExpectedRecovery("n1")

\* A schedule of `network_name` made of whole days: its blocks are the
\* station's slots, in order, over and over.
WholeDays(schedule, network_name) ==
    LET slots == station_by_name(network_name).slots
    IN  /\ Len(schedule) % Len(slots) = 0
        /\ \A i \in 1..Len(schedule) :
              LET slot == slots[((i - 1) % Len(slots)) + 1]
              IN  /\ schedule[i].title = slot.title
                  /\ schedule[i].end_time - schedule[i].start_time = slot.length
                  /\ SumDurations(schedule[i].plan) >= slot.length

\* C11: a day is committed whole or not at all.  A step of add_days that
\* ends in a GenerationFault leaves the persisted schedules exactly as they
\* were, every persisted schedule is made of whole days, and a run of
\* add_days over two days leaves the days persisted before it in place and
\* only whole days after them, whether it fails or not.
C11_AtomicDay ==
    [][ /\ (PanicAddDays /\ pc' = "crashed") => persisted' = persisted
        /\ \A n \in Networks : WholeDays(persisted'[n], n)
        /\ pc = "panic" =>
              \A r \in add_days(persisted[network], network, clip_index, now, 2) :
                  /\ IsPrefix(persisted[network], r.schedule)
                  /\ WholeDays(r.schedule, network) ]_vars

C11_Witness ==
    /\ pc = "crashed"
    /\ network = "n1"
    /\ "n1" \in faults
    /\ days_generated["n1"] >= 1
    /\ clip_index["t1"] # {}
    /\ clip_index["t3"] = {}
    /\ WholeDays(persisted["n1"], "n1")

\* C12: no two executions of add_days for one network overlap, and no day
\* is appended onto a horizon that a day was already appended onto.
C12_SingleWriter ==
    /\ \A p, q \in Players :
          p # q => ~(w_pc[p] = "add_days" /\ w_pc[q] = "add_days")
    /\ ~w_divergent

\* C13: while a file's cache record stays in the store, break detection is
\* run on it at most once, whatever the first detection returned.
C13_DetectedOnce == \A f \in FileSet : detections[f] <= 1

\* C14: scan_breaks hands black_detect only files that have a cache record,
\* with the duration of that record, and a file on disk without a record
\* keeps the break points it had: none are written for it.
C14_DurationFromCache ==
    [][ ScanBreaks =>
          /\ \A c \in detect_log' :
                /\ c.record # NoRecord
                /\ c.duration = c.record.duration
          /\ \A f \in FileSet :
                disk[f] # NoFile /\ file_cache[f] = NoRecord
                    => break_points'[f] = break_points[f] ]_vars

C14_Witness ==
    /\ prev.op = "scan_breaks"
    /\ \E f \in FileSet :
          /\ disk[f] # NoFile
          /\ file_cache[f] = NoRecord
          /\ get_breaks(f) = <<>>
    /\ \E c \in detect_log : c.duration = c.record.duration /\ c.duration > 0

\* C15: scan_breaks runs detection only for files whose cache record carries
\* the fingerprint the file has on disk, and the break points get_breaks
\* returns for a file whose record is current are those of the file as it
\* is.
C15_NoStaleBreakPoints ==
    /\ \A c \in detect_log : c.record.fingerprint = c.fingerprint
    /\ \A f \in FileSet :
          /\ file_cache[f] # NoRecord
          /\ file_cache[f].fingerprint = disk[f].fingerprint
          /\ get_breaks(f) # <<>>
          => get_breaks(f) = detect_breaks(f, disk[f].fingerprint, file_cache[f].duration)

\* C16: when break detection fails for a file, the break points scan_breaks
\* wrote for the files before it in the same run stay in the store.
C16_FailureIsolated == lost_points = {}

\* C17: a file-cache scan that follows a scan, the directory unchanged and
\* nothing but time in between, changes no record and no break point.
C17_ScanIdempotent ==
    [][ ScanFileCache /\ prev.op = "scan" =>
          /\ file_cache' = file_cache
          /\ break_points' = break_points ]_vars

C17_Witness ==
    /\ prev.op = "scan"
    /\ prev.arg = 2
    /\ prev.touched = {}
    /\ \E f \in FileSet :
          /\ file_cache[f] # NoRecord
          /\ file_cache[f].last_verified < now
          /\ get_breaks(f) # <<>>

\* C18: a scan gets to every file: after it each readable file on disk has a
\* record with the fingerprint it has on disk, and a file that fails probing
\* keeps the record it had, or none.
C18_ProbeFailureLocal ==
    [][ ScanFileCache =>
          \A f \in FileSet :
             disk[f] # NoFile =>
                IF disk[f].readable
                THEN /\ file_cache'[f] # NoRecord
                     /\ file_cache'[f].fingerprint = disk[f].fingerprint
                     /\ file_cache'[f].duration = probe_duration(f, disk)
                ELSE file_cache'[f] = file_cache[f] ]_vars

C18_Witness ==
    /\ prev.op = "scan"
    /\ prev.touched = {Files[2]}
    /\ disk[Files[1]] # NoFile
    /\ ~disk[Files[1]].readable
    /\ file_cache[Files[1]] # NoRecord
    /\ file_cache[Files[1]].fingerprint # disk[Files[1]].fingerprint
    /\ file_cache[Files[2]].fingerprint = disk[Files[2]].fingerprint

\* C19: a trim deletes the records last verified before its cutoff and
\* leaves every other record as it was.
C19_TrimExact ==
    [][ TrimFileCache =>
          \A f \in FileSet :
             file_cache'[f] =
                IF file_cache[f] # NoRecord /\ file_cache[f].last_verified < prev'.arg
                THEN NoRecord ELSE file_cache[f] ]_vars

C19_Witness ==
    /\ prev.op = "trim"
    /\ prev.touched # {}
    /\ \E f \in FileSet :
          /\ file_cache[f] # NoRecord
          /\ file_cache[f].last_verified = prev.arg

\* C20: a check of the channel file that finds contents returns them as a
\* CHANNEL_CHANGE outcome and leaves the file empty, so that the next check
\* returns None; a check that finds the file empty returns None and leaves
\* the file as it is.
C20_ReadClears ==
    [][ (MonitorInterrupted \/ FailedWake) =>
          /\ IF channel_socket # ""
             THEN /\ outcome' = PlayerOutcome("CHANNEL_CHANGE", channel_socket)
                  /\ channel_socket' = ""
             ELSE /\ outcome' = outcome
                  /\ channel_socket' = channel_socket
          /\ check_channel_socket(channel_socket').response.status = None ]_vars

C20_Witness ==
    /\ pc = "loop"
    /\ skip_play
    /\ outcome.status = "CHANNEL_CHANGE"
    /\ outcome.payload \in Commands
    /\ channel_socket = ""

\* C21: a command written to the channel file while the file is empty is
\* never emptied out of the file by a check_channel_socket call that does not
\* return it, and it is returned at most once, however the write falls
\* between that call's read and its truncation.
C21_NoCommandLost ==
    /\ ~m_lost
    /\ m_returns <= 1
    /\ (m_fresh # "" /\ m_returns = 0) =>
          (channel_socket = m_fresh \/ (m_pc = "read" /\ m_contents = m_fresh))

\* The write fell between a read that found the file empty and the end of
\* that call, and a later call has returned the command.
C21_Witness ==
    /\ m_raced
    /\ m_returns = 1
    /\ channel_socket = ""
    /\ outcome.status = "CHANNEL_CHANGE"
    /\ m_pc = "idle"

\* C22: the JSON file convert_schedule_to_json writes holds one block per
\* schedule block in the same order, each with the block's start_time,
\* end_time and title and one plan item per PlanEntry in the same order with
\* that entry's path, duration and skip, and with is_stream the entry's flag,
\* or false for an entry without the attribute.
C22_ProjectionPreservesStructure ==
    c_json.written =>
        /\ Len(c_json.blocks) = Len(c_blocks)
        /\ \A i \in 1..Len(c_blocks) :
              LET block == c_blocks[i]
                  out == c_json.blocks[i]
              IN  /\ DOMAIN out = {"start_time", "end_time", "title", "plan"}
                  /\ fromisoformat(out.start_time.value) = block.start_time
                  /\ fromisoformat(out.end_time.value) = block.end_time
                  /\ out.title = block.title
                  /\ Len(out.plan) = Len(block.plan)
                  /\ \A j \in 1..Len(block.plan) :
                        LET entry == block.plan[j]
                            item == out.plan[j]
                        IN  /\ DOMAIN item = {"path", "duration", "skip", "is_stream"}
                            /\ item.path = entry.path
                            /\ item.duration = entry.duration
                            /\ item.skip = entry.skip
                            /\ item.is_stream = IF "is_stream" \in DOMAIN entry
                                                THEN entry.is_stream ELSE FALSE

\* A file of two blocks was converted: one plan holds an entry without the
\* attribute before a stream, the other an entry without a duration.
C22_Witness ==
    /\ c_json.written
    /\ Len(c_blocks) = 2
    /\ Len(c_blocks[1].plan) = 2
    /\ "is_stream" \notin DOMAIN c_blocks[1].plan[1]
    /\ "is_stream" \in DOMAIN c_blocks[1].plan[2]
    /\ c_blocks[1].plan[2].is_stream
    /\ c_blocks[2].plan # <<>>
    /\ c_blocks[2].plan[1].duration = 0

RECURSIVE SumMonitored(_)
\* The seconds monitored over a sequence of play_file calls.
SumMonitored(calls) ==
    IF calls = <<>> THEN 0
    ELSE calls[1].monitor + SumMonitored(Tail(calls))

\* The entries plan[index..] of the play point being played, up to but not
\* including 1-based position `upto`, are what has been played, in order.
PlayedInOrder(upto) ==
    /\ Len(played) = upto - (play_point.index + 1)
    /\ \A k \in 1..Len(played) :
          /\ played[k].index = play_point.index + k - 1
          /\ played[k].entry = play_point.plan[play_point.index + k]

PlayedBlock ==
    LET schedule == schedules[network]
    IN  schedule[CHOOSE i \in 1..Len(schedule) : ContainsTime(schedule[i], when)]

\* C24: when the monitoring of an entry finds a command in the channel file
\* before the entry's time is up, _play_from_point returns at once the
\* CHANNEL_CHANGE outcome whose payload is that command: the file is emptied,
\* no time passes and no further entry of the plan is started.
C24_CommandInterruptsPlayback ==
    [][(pc = "monitor" /\ now < stop_time /\ channel_socket # "" /\ pc' # pc) =>
        /\ outcome' = PlayerOutcome("CHANNEL_CHANGE", channel_socket)
        /\ pc' = "outcome"
        /\ channel_socket' = ""
        /\ now' = now
        /\ played' = played
        /\ play_point' = NoPlayPoint]_vars

\* Playback was interrupted in an entry after which the plan holds another.
C24_Witness ==
    /\ pc = "outcome"
    /\ outcome.status = "CHANNEL_CHANGE"
    /\ unprocessed.from = "monitor"
    /\ played # <<>>
    /\ played[Len(played)].index + 1 < Len(PlayedBlock.plan)

\* C25: when _play_from_point reaches an entry without a duration (absent or
\* zero) it returns FAILED and starts no later entry of the plan; a block
\* with an empty plan likewise yields FAILED, and current_playing_file_path
\* is cleared.
C25_DegenerateEntryFails ==
    /\ [][(PlayEntry /\ entry_i <= Len(play_point.plan)
                     /\ play_point.plan[entry_i].duration = 0) =>
            /\ outcome'.status = "FAILED"
            /\ pc' = "outcome"
            /\ play_point' = NoPlayPoint
            /\ Len(played') = Len(played) + 1
            /\ played'[Len(played')].index = entry_i - 1]_vars
    /\ [][(PlaySlotQuery /\ \E i \in 1..Len(schedules[network]) :
                               /\ ContainsTime(schedules[network][i], when)
                               /\ schedules[network][i].plan = <<>>) =>
            /\ outcome'.status = "FAILED"
            /\ pc' = "outcome"
            /\ current_playing_file_path' = None]_vars
    /\ [](played # <<>> =>
            \A k \in 1..(Len(played) - 1) : played[k].entry.duration # 0)

\* An entry without a duration was reached after an entry that played, and
\* the entry the plan holds after it was not started.
C25_Witness ==
    /\ pc = "outcome"
    /\ outcome.status = "FAILED"
    /\ Len(played) = 2
    /\ played[2].entry.duration = 0
    /\ played[2].index + 1 < Len(PlayedBlock.plan)

\* C26: every command check_channel_socket removed from the channel file is
\* acted on by main_loop's channel-change branch: when main_loop is back at
\* the top of its loop with nothing held over, no removed command is left
\* that the branch has not processed.
C26_ConsumedCommandProcessed ==
    (pc = "loop" /\ ~skip_play) => unprocessed.payload = ""

\* C27: a web channel request is eventually honoured whatever station is
\* on, the guide channel included, with no command on the channel file: once
\* a web handler has set current_channel_index to another index while the
\* guide is up, main_loop eventually has that index as its channel_index.
C27_WebRequestHonoured ==
    (pc = "guide" /\ web_index # channel_index) ~> (channel_index = web_index)

\* C28: during a run of consecutive FAILED outcomes on a station that names a
\* standby image, play_file(standby_image) is called at most once.
C28_StandbyShownOnce == standby_shows <= 1

\* C29: a command read from the channel file in the FAILED branch is
\* processed as a channel change by the next iteration: when main_loop is
\* back at the top of its loop with nothing held over, no command read in the
\* FAILED branch is left unprocessed.
C29_HeldOverCommandProcessed ==
    (pc = "loop" /\ ~skip_play) => unprocessed.from # "failed"

\* C30: channel_index is always an index of stations and channel_conf is the
\* station at that index, whatever commands (up, down, direct to a known or
\* an unknown channel or to none, text that is not JSON) and web requests
\* arrive.
C30_ChannelIndexInRange ==
    /\ channel_index \in 0..(Len(stations) - 1)
    /\ channel_conf = stations[channel_index + 1]

\* A direct tune to a channel no station has was processed on the last
\* station.
C30_Witness ==
    /\ pc = "loop"
    /\ unprocessed = NoCommand
    /\ outcome = PlayerOutcome("CHANNEL_CHANGE", "direct 4")
    /\ channel_index = Len(stations) - 1
    /\ web_index = channel_index

\* The web player under a remote control that writes every kind of document.
NextTune ==
    \/ Tick
    \/ WriteTunePayload
    \/ MainLoopPlay
    \/ PlaySlotQuery
    \/ PanicAddDays
    \/ PanicReload
    \/ PlayEntry
    \/ MonitorDone
    \/ MonitorInterrupted
    \/ ShowGuide
    \/ ProcessOutcome
    \/ FailedWake

SpecTune == InitWeb /\ [][NextTune]_vars

\* The index the claim names for a payload, N being the number of stations.
ClaimedIndex(i, payload) ==
    LET N == Len(stations)
    IN  CASE payload = "down" -> (i - 1) % N
          [] payload = "direct 5" ->
                CHOOSE k \in 0..(N - 1) : stations[k + 1].channel_number = 5
          [] payload \in {"direct 4", "direct"} -> i
          [] OTHER -> (i + 1) % N

\* C31: one CHANNEL_CHANGE outcome moves channel_index i, with N stations, to
\* (i - 1) mod N for "down", to the index of the station with the channel for
\* "direct" with a channel some station has, leaves it at i for "direct" with
\* an unknown or a missing channel, and moves it to (i + 1) mod N for "up",
\* an unknown command, a payload without a command, an empty payload and a
\* payload that is not JSON.
C31_ChannelChangeEffect ==
    [][(ProcessOutcome /\ web_index = channel_index
            /\ outcome.status = "CHANNEL_CHANGE")
        => /\ channel_index' = ClaimedIndex(channel_index, outcome.payload)
           /\ \A i \in 0..(Len(stations) - 1) :
                 TuneIndex(i, "") = ClaimedIndex(i, "")]_vars

\* "down" on the first station was processed and wrapped to the last one.
C31_Witness ==
    /\ pc = "loop"
    /\ outcome = PlayerOutcome("CHANNEL_CHANGE", "down")
    /\ unprocessed = NoCommand
    /\ channel_index = Len(stations) - 1

\* C34: while _play_from_point is monitoring a plan entry,
\* current_playing_file_path (and with it the reported title) is that entry's
\* path, never a different, earlier file, also when the entry's file does not
\* exist and is not a stream.
C34_PlayingPathIsEntry ==
    pc = "monitor" => current_playing_file_path = play_point.plan[entry_i].path

\* The web player with a browser that posts channel numbers.
NextApi ==
    \/ Tick
    \/ PostChannel
    \/ PlayerStep

SpecApi == InitWeb /\ [][NextApi]_vars

\* C32: POST /api/channel/{channel_number} for a channel number no station
\* has is answered with 404.
C32_UnknownChannelIs404 ==
    (api_request # 0 /\ index_from_channel(api_request) = -1) => api_response = 404

\* The web player with clients of /live.
NextLive ==
    \/ Tick
    \/ PlayerStep
    \/ \E r \in Streams : live_stream(r)
    \/ \E p \in Streams : FfmpegExits(p)
    \/ \E r \in Streams : iterfile_read(r)
    \/ \E r \in Streams : iterfile_close(r)

SpecLive == InitWeb /\ [][NextLive]_vars

\* C33: the cleanup of an earlier /live response never closes or kills the
\* ffmpeg process that serves a later request, each response reads only the
\* output of the process started for it, and current_stream_process refers
\* to at most one process.
C33_CleanupSparesLaterStream ==
    /\ \A p \in Streams : killed_by[p] \in {-1, 0, p}
    /\ \A r \in Streams : read_from[r] \subseteq {r}
    /\ current_stream_process \in {0} \cup Streams

\* Both players' show_guide, each polling the channel file a remote control
\* writes: the web player's inside its main_loop, the local player's called
\* again and again.
NextGuide ==
    \/ Next
    \/ show_guide_start
    \/ show_guide_poll
    \/ guide_channel_runner
    \/ show_guide_join
    \/ guide_outcome_taken

SpecGuide == InitWeb /\ [][NextGuide]_vars

\* C35: show_guide returns only after a command has been read from the
\* channel file, and its outcome is CHANNEL_CHANGE carrying that command,
\* never SUCCESS; in the local player the guide process has been sent
\* hide_window and has been joined before show_guide returns.
C35_GuideReturnsCommand ==
    [][/\ (pc = "guide" /\ pc' # "guide")
            => /\ channel_socket # ""
               /\ outcome' = PlayerOutcome("CHANNEL_CHANGE", channel_socket)
       /\ (g_pc = "loop" /\ g_pc' # "loop")
            => /\ channel_socket # ""
               /\ g_outcome' = PlayerOutcome("CHANNEL_CHANGE", channel_socket)
               /\ guide_queue' = <<"hide_window">>
               /\ g_pc' # "returned"
       /\ (g_pc # "returned" /\ g_pc' = "returned")
            => /\ g_outcome'.status = "CHANNEL_CHANGE"
               /\ g_outcome' = g_outcome
               /\ guide_process' = "exited"
               /\ guide_queue' = <<>>]_vars

\* The local player's show_guide has returned the command "down" it read,
\* its guide process ended, and the web player has taken "up" out of its own
\* guide.
C35_Witness ==
    /\ g_pc = "returned"
    /\ guide_process = "exited"
    /\ g_outcome = PlayerOutcome("CHANNEL_CHANGE", "down")
    /\ outcome = PlayerOutcome("CHANNEL_CHANGE", "up")
    /\ channel_index = 0
    /\ channel_conf = stations[1]

\* The status file between a player that writes it and the status display.
NextOsd ==
    \/ update_status_socket_open
    \/ update_status_socket_write
    \/ update

SpecOsd == InitWeb /\ [][NextOsd]_vars

\* The file holds the whole text of one status object.
CompleteStatus(text) == \E status_obj \in StatusObjects : text = json_dumps(status_obj)

\* C36: a status reader never acts on a partially written status: when the
\* content of the status file cannot be parsed as JSON (read between the
\* writer's truncate and the end of its write), check_status leaves the
\* displayed text and time_since_change as they were, and the text changes
\* only to the string formatted from a complete status object.
C36_ReaderIgnoresPartialStatus ==
    [][/\ (update /\ ~CompleteStatus(status_socket))
            => /\ osd_string' = osd_string
               /\ time_since_change' = Later(time_since_change)
       /\ (osd_string' # osd_string)
            => \E status_obj \in StatusObjects :
                  /\ status_socket = json_dumps(status_obj)
                  /\ osd_string' = << Value(status_obj, "channel_number"),
                                      Value(status_obj, "network_name") >>]_vars

\* The display shows the second station, and its last check read a status of
\* the first station that was half written, up to the channel number.
C36_Witness ==
    /\ osd_string = <<stations[2].channel_number, stations[2].network_name>>
    /\ s_pc = "opened"
    /\ osd_read = status_socket
    /\ Len(osd_read) = 4
    /\ osd_read = SubSeq(s_str, 1, 4)
    /\ osd_read[3].value = stations[1].network_name
    /\ osd_read[4].value = stations[1].channel_number
    /\ time_since_change = MaxSince

\* The conversion tool run on catalog files.
SpecCatalog == InitWith(SmallCatalog, NoSchedules) /\ [][ConvertCatalogToJson]_vars

\* C37: convert_catalog_to_json returns True only when a complete JSON
\* document was written to output_path, and after a failure (False) the
\* output path does not hold a truncated or partial document.
C37_NoPartialDocument ==
    /\ k_return = "True"
          => /\ k_output.exists /\ k_output.closed
             /\ k_output.chunks = json_entries(k_catalog.clip_index)
    /\ k_return = "False" => ~(k_output.exists /\ ~k_output.closed)

\* A caller that makes a FluidBuilder, with a db_path or without, and uses it
\* once it has one, while time passes and files change.
InitConstruct == InitState(SmallCatalog, NoSchedules) /\ BuilderUnconstructed

NextConstruct ==
    \/ FluidBuilder_init
    \/ Wait
    \/ ChangeFile
    \/ (fb_db_path # "unset" /\ ScanFileCache)
    \/ (fb_db_path # "unset" /\ TrimFileCache)
    \/ (fb_db_path # "unset" /\ ScanBreaks)

SpecConstruct == InitConstruct /\ [][NextConstruct]_vars

\* C38: FluidBuilder(db_path=p) with an explicit p opens and initialises the
\* store at p and the builder's operations use p; only when db_path is
\* omitted is the path taken from the station configuration.
C38_ExplicitPathUsed ==
    /\ fb_arg # None => (fb_db_path = fb_arg /\ fb_arg \in fb_initialised)
    /\ fb_db_path = ConfDbPath => fb_arg = None

====
